---------------------------- MODULE Spec2Model ----------------------------
(***************************************************************************)
(* Model of the proactive-initiation engine of the Chimera bot:           *)
(*   proactive_initiation.py  scheduler, dispatcher, response correlator  *)
(*   proactive_commands.py    opt-in / opt-out / pause mutators           *)
(*   cron_jobs.py             periodic loops and the cleanup sweep        *)
(*   deepseek_api.py          the language-model call                     *)
(*   telegram_bot.py          handle_message (the correlator hook)        *)
(*   injection_system.py      the adaptive injections and their cache     *)
(*   ltm_database.py          the model context and its injection         *)
(*                                                                         *)
(* Time is a number of seconds.  The tables of the store are sequences;   *)
(* a row's id is its index.  The asyncio event loop runs one coroutine    *)
(* at a time and switches only at a real suspension point, so every       *)
(* action below is the code between two suspension points, and a          *)
(* coroutine that is inside synchronous code keeps the loop.              *)
(***************************************************************************)
EXTENDS Integers, Sequences, FiniteSets, TLC

VARIABLES
    now,        \* the wall clock (NOW(), datetime.now(timezone.utc))
    storeUp,    \* the PostgreSQL store is reachable (get_connection succeeds)
    settings,   \* user_proactivity_settings: user -> [is_enabled, paused_until]
    schedule,   \* initiation_schedule rows
    logs,       \* initiation_logs rows
    history,    \* history rows
    spc,        \* dispatch sweep: position of send_scheduled_initiations
    batch,      \* dispatch sweep: pending_initiations (row ids, fetched once)
    pos,        \* dispatch sweep: index of the row being handled
    message,    \* dispatch sweep: the generated message of the current row
    success,    \* dispatch sweep: result of _send_initiation_message
    kpc,        \* scheduling sweep: position of check_and_schedule_initiations
    kusers,     \* scheduling sweep: eligible_users (fetched once)
    kpos,       \* scheduling sweep: index of the user being handled
    inflight,   \* handle_message: user -> the message whose reply is being generated
    ret,        \* the last call of an observed function and what it returned
    counter,    \* Redis himera:injection_count:<user>: user -> count (0: no key)
    cache,      \* Redis himera:injections:<key>: cache key -> injection text
    marker,     \* Redis himera:last_emotion:<user>: user -> emotion ("": no key)
    fired,      \* user -> injections added to a model context since the last reset
    call,       \* the frame of the context build in progress, with its outcome
    tasks,      \* cron_jobs.background_tasks: loop -> state of its asyncio task
    delivered,  \* schedule rows whose message reached the user once, and twice
    racers      \* scheduling sweeps of other processes: process -> its frame

(* The state of the injection system *)
ivars == <<counter, cache, marker, fired, call>>

(* The state of the proactive-initiation engine *)
pvars == <<now, storeUp, settings, schedule, logs, history, spc, batch, pos,
           message, success, kpc, kusers, kpos, inflight, ret>>

(* The background tasks, the deliveries, and the sweeps of other processes *)
xvars == <<tasks, delivered, racers>>

vars == <<pvars, ivars, xvars>>

---------------------------------------------------------------------------
(* Units of time *)
Minute == 60
Hour == 60 * Minute
Day == 24 * Hour

(* config.py *)
MAX_INITIATIONS_PER_DAY == 4
MIN_INITIATION_INTERVAL_HOURS == 3
INITIATION_ACTIVE_HOURS_START == 9
INITIATION_ACTIVE_HOURS_END == 23
SILENCE_AFTER_IGNORED_COUNT == 2
SILENCE_MIN_RESPONSE_LENGTH == 10
SILENCE_INACTIVITY_DAYS == 7

(* SQL NULL / Python None *)
NULL == -1

(* Telegram ids of the modelled users (one user).  get_or_assign_ab_group puts the even
   ids in group 'A', the only group _get_eligible_users selects. *)
Users == {2}

get_or_assign_ab_group(user_id) == IF user_id % 2 = 0 THEN "A" ELSE "B"

(* users.is_authorized; /writeme enables proactivity only for authorized users *)
is_authorized(user_id) == TRUE

stress_emotions == {"sadness", "anger", "fear"}

---------------------------------------------------------------------------
(* Helpers on sequences and sets *)

Indices(s) == DOMAIN s

(* The sum of user_response_length over the log rows S *)
RECURSIVE SumResponseLength(_)
SumResponseLength(S) ==
    IF S = {} THEN 0
    ELSE LET x == CHOOSE y \in S : TRUE
         IN logs[x].user_response_length + SumResponseLength(S \ {x})

SetMax(S) == CHOOSE x \in S : \A y \in S : y <= x

(* The first n elements of a sequence (SQL LIMIT n) *)
Limit(s, n) == SubSeq(s, 1, IF Len(s) < n THEN Len(s) ELSE n)

(* The schedule rows S in ORDER BY scheduled_at (ties in id order) *)
RECURSIVE OrderByScheduledAt(_)
OrderByScheduledAt(S) ==
    IF S = {} THEN <<>>
    ELSE LET m == CHOOSE x \in S : \A y \in S :
                    \/ schedule[x].scheduled_at < schedule[y].scheduled_at
                    \/ /\ schedule[x].scheduled_at = schedule[y].scheduled_at
                       /\ x <= y
         IN <<m>> \o OrderByScheduledAt(S \ {m})

---------------------------------------------------------------------------
(* Eligibility: _should_schedule_initiation and the queries it makes *)

(* utc_now().replace(hour=0, minute=0, second=0, microsecond=0) *)
today_start(t) == t - (t % Day)

_get_today_initiation_count(user_id) ==
    Cardinality({i \in Indices(schedule) :
        /\ schedule[i].user_id = user_id
        /\ schedule[i].scheduled_at >= today_start(now)
        /\ schedule[i].scheduled_at < today_start(now) + Day
        /\ schedule[i].status \in {"pending", "sent"}})

_get_last_user_activity(user_id) ==
    LET S == {history[i].created_at : i \in
                {j \in Indices(history) :
                    history[j].user_id = user_id /\ history[j].role = "user"}}
    IN IF S = {} THEN NULL ELSE SetMax(S)

(* The log rows the 30-day retention has not deleted *)
LiveLogs == {i \in Indices(logs) : ~ logs[i].deleted}

IgnoredLogs(user_id) ==
    {i \in LiveLogs :
        /\ logs[i].user_id = user_id
        /\ logs[i].created_at > now - 7 * Day
        /\ logs[i].user_responded = FALSE}

RespondedLogs(user_id) ==
    {i \in LiveLogs :
        /\ logs[i].user_id = user_id
        /\ logs[i].created_at > now - 7 * Day
        /\ logs[i].user_responded = TRUE}

(* The newest five user messages of the last 24 hours, as history indices.
   history is appended in created_at order, so the newest have the highest index. *)
RecentUserMessages(user_id) ==
    LET S == {i \in Indices(history) :
                /\ history[i].user_id = user_id
                /\ history[i].role = "user"
                /\ history[i].created_at > now - 24 * Hour}
    IN {i \in S : Cardinality({j \in S : j > i}) < 5}

(* Variant of the ignored-messages test with a strict comparison *)
IgnoredConditionStrict(user_id) ==
    Cardinality(IgnoredLogs(user_id)) > SILENCE_AFTER_IGNORED_COUNT

IgnoredCondition(user_id) ==
    Cardinality(IgnoredLogs(user_id)) >= SILENCE_AFTER_IGNORED_COUNT

(* AVG(user_response_length) < SILENCE_MIN_RESPONSE_LENGTH; an AVG of no rows is
   NULL and an AVG of 0 is falsy: both skip the test *)
ShortAnswersCondition(user_id) ==
    LET R == RespondedLogs(user_id)
        total == SumResponseLength(R)
    IN /\ R # {}
       /\ total # 0
       /\ total < SILENCE_MIN_RESPONSE_LENGTH * Cardinality(R)

(* Variant of the stress test that counts every user message of the window *)
StressInWindow(user_id) ==
    Cardinality({i \in Indices(history) :
                    /\ history[i].user_id = user_id
                    /\ history[i].role = "user"
                    /\ history[i].created_at > now - 24 * Hour
                    /\ history[i].emotion_primary \in stress_emotions}) >= 3

StressCondition(user_id) ==
    Cardinality({i \in RecentUserMessages(user_id) :
                    history[i].emotion_primary \in stress_emotions}) >= 3

_is_in_silence_mode(user_id) ==
    IF IgnoredCondition(user_id) THEN TRUE
    ELSE IF ShortAnswersCondition(user_id) THEN TRUE
    ELSE IF StressCondition(user_id) THEN TRUE
    ELSE FALSE

_get_last_initiation_time(user_id) ==
    LET S == {schedule[i].scheduled_at : i \in
                {j \in Indices(schedule) :
                    /\ schedule[j].user_id = user_id
                    /\ schedule[j].status \in {"sent", "pending"}}}
    IN IF S = {} THEN NULL ELSE SetMax(S)

(* Variant of the daily-limit test with a strict comparison *)
DailyLimitExceeded(user_id) ==
    _get_today_initiation_count(user_id) > MAX_INITIATIONS_PER_DAY

DailyLimitReached(user_id) ==
    _get_today_initiation_count(user_id) >= MAX_INITIATIONS_PER_DAY

(* not last_activity or (now - last_activity).days > SILENCE_INACTIVITY_DAYS *)
InactiveTooLong(user_id) ==
    LET last == _get_last_user_activity(user_id)
    IN \/ last = NULL
       \/ (now - last) \div Day > SILENCE_INACTIVITY_DAYS

(* hours_passed < MIN_INITIATION_INTERVAL_HOURS, hours_passed a float *)
TooSoon(user_id) ==
    LET last == _get_last_initiation_time(user_id)
    IN /\ last # NULL
       /\ now - last < MIN_INITIATION_INTERVAL_HOURS * Hour

_should_schedule_initiation(user_id) ==
    IF DailyLimitReached(user_id) THEN FALSE
    ELSE IF InactiveTooLong(user_id) THEN FALSE
    ELSE IF _is_in_silence_mode(user_id) THEN FALSE
    ELSE IF TooSoon(user_id) THEN FALSE
    ELSE TRUE

---------------------------------------------------------------------------
(* Bounds of the exploration *)
MaxRows == 2        \* schedule rows the scheduling sweeps insert
MaxMsgs == 2        \* user text messages handled after the initial state
MaxEligRows == 5    \* schedule rows of the drawn eligibility inputs

(* The instant of the initial state: 06:00 UTC (07:00 in Amsterdam) of some day *)
StartTime == 10 * Day + 6 * Hour

(* The clock of the engine's runs: steps of an hour and of a day over the instants
   06:00 and 07:00 UTC of three days (the cleanup sweep cancels after 48 hours) *)
TickSteps == {Hour, Day}
ClockValues == {StartTime + h * Hour + d * Day : h \in {0, 1}, d \in {0, 1, 2}}

(* SELECT ... LIMIT 50 of _get_pending_initiations *)
BATCH_LIMIT == 50

(* Europe/Amsterdam, the only timezone detect_user_timezone returns (CET) *)
_get_user_timezone(user_id) == 1 * Hour

(* The values random.randint draws in _calculate_optimal_time, sampled *)
SampleMinutes == {0}
SampleDeviations == {-90, 0}

(* /writeme_pause durations, sampled from those parse_pause_duration accepts *)
PauseDurations == {3 * Hour}

(* What a user text message is to the model: its emotion label and its length *)
MessageKinds == {[emotion |-> "joy", length |-> 20]}

---------------------------------------------------------------------------
(* Rows *)

ScheduleRow(user_id, scheduled_at) ==
    [user_id |-> user_id, scheduled_at |-> scheduled_at, status |-> "pending",
     sent_at |-> NULL, error_message |-> "", user_response_received |-> FALSE]

(* INSERT INTO initiation_logs (user_id, initiation_id, message_content,
   initiation_type, created_at): the response columns keep their defaults *)
LogRow(user_id, initiation_id, content) ==
    [user_id |-> user_id, initiation_id |-> initiation_id,
     message_content |-> content, created_at |-> now,
     user_responded |-> FALSE, response_time_minutes |-> NULL,
     user_response_length |-> NULL, deleted |-> FALSE]

HistoryRow(user_id, role, content, emotion, bot_mode) ==
    [user_id |-> user_id, role |-> role, content |-> content,
     emotion_primary |-> emotion, bot_mode |-> bot_mode, created_at |-> now]

NoMessage == [row |-> 0, text |-> "none"]

(* Every coroutine is at a suspension point (or not started): the event loop
   may pick any of them, and an incoming update may be handled. *)
LoopFree == spc \in {"idle", "send"} /\ kpc = "idle"

(* Updates are handled one at a time (ApplicationBuilder's default) *)
NoUpdate == [user_id |-> 0, emotion |-> "", length |-> 0, received_at |-> 0]
NoUpdateInHandling == inflight = NoUpdate

NoCall == [fn |-> "none", user_id |-> 0, value |-> FALSE, raised |-> FALSE]

---------------------------------------------------------------------------
(* The store.  get_connection raises while PostgreSQL is unreachable; it may
   become unreachable, and reachable again, at any moment. *)

get_connection == storeUp

StoreFails ==
    /\ storeUp
    /\ storeUp' = FALSE
    /\ UNCHANGED <<ivars, xvars>>
    /\ UNCHANGED <<now, settings, schedule, logs, history, spc, batch,
                   pos, message, success, kpc, kusers, kpos, inflight,
                   ret>>

StoreRecovers ==
    /\ ~ storeUp
    /\ storeUp' = TRUE
    /\ UNCHANGED <<ivars, xvars>>
    /\ UNCHANGED <<now, settings, schedule, logs, history, spc, batch,
                   pos, message, success, kpc, kusers, kpos, inflight,
                   ret>>

---------------------------------------------------------------------------
(* The language model: ask_deepseek returns a string in every case.  outcome is
   what requests.post did; the error strings stand for the Russian ones. *)
ask_deepseek(outcome) ==
    CASE outcome = "answer" -> "answer"
      [] outcome = "empty" -> "Error: empty DeepSeek API response"
      [] outcome = "timeout" -> "Error: DeepSeek API timed out"
      [] outcome = "connection" -> "Error: DeepSeek API unreachable"
      [] OTHER -> "Error: internal error calling DeepSeek API"

(* The outcomes of the call the model explores *)
LlmOutcomes == {"answer", "timeout"}

LlmErrors == {ask_deepseek(o) : o \in {"empty", "timeout", "connection", "other"}}

---------------------------------------------------------------------------
(* The background tasks of cron_jobs.py.  start_proactive_cron creates one task
   per loop; a task is running (its coroutine sleeps or is in an iteration),
   cancelled by stop_proactive_cron, or finished because an exception left its
   coroutine. *)

Loops == {"scheduler_loop", "sender_loop", "cleanup_loop"}

Running(loop) == tasks[loop] = "running"

(* Variant of the handlers: the exception leaves the loop's coroutine *)
Uncaught(loop) == [tasks EXCEPT ![loop] = "finished"]

(* except Exception as e: logger.error(...) in run_proactive_scheduler,
   run_proactive_sender and cleanup_loop: the task goes on to its sleep *)
Caught(loop) == tasks

(* The deliveries are an observation of the run, kept only by the specifications
   that start with an observing record *)
Deliveries(observed, once, twice) ==
    [observed |-> observed, once |-> once, twice |-> twice]

(* The message of a schedule row reaches the user *)
Deliver(id) ==
    IF delivered.observed
    THEN Deliveries(TRUE, delivered.once \cup {id},
                    IF id \in delivered.once THEN delivered.twice \cup {id}
                    ELSE delivered.twice)
    ELSE delivered

(* No sweep of another process is under way; base is the number of rows the
   tables held at the start *)
NoRacers == [base |-> 0, sweep |-> <<>>]

(* The tasks as start_proactive_cron leaves them *)
CronStarted ==
    /\ tasks = [loop \in Loops |-> "running"]
    /\ delivered = Deliveries(FALSE, {}, {})
    /\ racers = NoRacers


---------------------------------------------------------------------------
(* The adaptive injection system (injection_system.py) and the part of
   build_enhanced_context_with_ltm_smart that calls it (ltm_database.py).
   Entropy and volatility are floats in the code; here they are hundredths.
   The text of an injection is the sequence of the templates it is made of. *)

(* config.py, passed to InjectionConfig by telegram_bot.py *)
MAX_INJECTIONS_PER_DIALOGUE == 2
INJECTION_ENTROPY_THRESHOLD == 70
INJECTION_MAX_TOKENS == 65

(* The Redis client the injection system is built with *)
decode_responses == TRUE

(* Bounds *)
MaxFired == 3       \* injections added to a user's contexts between two resets
MaxCached == 1      \* entries of the injection cache

CORE_TEMPLATES == {"base", "format_violation", "character_drift"}
MODE_BOOSTERS == {"talk", "expert", "writer"}
EMOTION_MODS == {"joy", "sadness", "surprise", "neutral"}

(* Python None, an unset violation_type, a Redis key that does not exist *)
None == ""
NoText == <<>>

(* The Redis commands a context build can issue, and the sets of them that fail
   during one build: none, any single one, all of them (Redis is down) *)
RedisOps == {"count_get", "marker_get", "cache_get", "activity_get",
             "cache_setex", "marker_setex", "incr"}
FailureSamples == {{}} \cup {{op} : op \in RedisOps} \cup {RedisOps}

(* The inputs of a context build the model explores *)
Modes == {"talk", "auto"}
Emotions == {"joy", "sadness"}
ViolationTypes == {None, "format_violation"}

(* user_history, by what the injection system computes from it: its length,
   calculate_dialogue_entropy and calculate_style_volatility *)
Histories ==
    {[len |-> 2, entropy |-> 0, volatility |-> 50],
     [len |-> 6, entropy |-> 69, volatility |-> 40],
     [len |-> 6, entropy |-> 70, volatility |-> 40],
     [len |-> 6, entropy |-> 95, volatility |-> 0]}

calculate_dialogue_entropy(h) == IF h.len < 3 THEN 0 ELSE h.entropy

(* Variant of the volatility with the length test off by one *)
VolatilityUnderFour(h) == IF h.len < 4 THEN 50 ELSE h.volatility

calculate_style_volatility(h) == IF h.len < 5 THEN 50 ELSE h.volatility

(* redis.get as the client returns it: None, or the value as str or bytes *)
RedisGet(value, absent) ==
    IF value = absent THEN [type |-> "none", value |-> absent]
    ELSE [type |-> IF decode_responses THEN "str" ELSE "bytes", value |-> value]

_get_injection_count(user_id, failed) ==
    IF "count_get" \in failed THEN 0 ELSE counter[user_id]

(* mutation of should_inject: the entropy gate alone *)
EntropyGate(user_id, dialogue_entropy, failed) ==
    dialogue_entropy >= INJECTION_ENTROPY_THRESHOLD

should_inject(user_id, dialogue_entropy, failed) ==
    IF _get_injection_count(user_id, failed) >= MAX_INJECTIONS_PER_DIALOGUE
    THEN FALSE
    ELSE IF dialogue_entropy < INJECTION_ENTROPY_THRESHOLD THEN FALSE
    ELSE TRUE

_generate_cache_key(user_id, mode, emotion, violation) ==
    IF violation # None
    THEN <<user_id % 100, mode, emotion, violation>>
    ELSE <<user_id % 100, mode, emotion>>

(* get_cached_injection: str has no decode, so with a decoding client the
   AttributeError is caught and the entry is reported as missing *)
get_cached_injection(cache_key, failed) ==
    IF "cache_get" \in failed \/ cache_key \notin DOMAIN cache THEN NoText
    ELSE LET cached == RedisGet(cache[cache_key], NoText)
         IN IF cached.type = "bytes" THEN cached.value ELSE NoText

(* Trigger 1: last_emotion and last_emotion != emotion *)
EmotionChanged(user_id, emotion) ==
    LET last_emotion == RedisGet(marker[user_id], None)
    IN /\ last_emotion.type # "none"
       /\ (last_emotion.type = "bytes" \/ last_emotion.value # emotion)

(* The invalidation triggers: should_ignore_cache *)
should_ignore_cache(user_id, emotion, h, violation_type) ==
    \/ EmotionChanged(user_id, emotion)
    \/ calculate_style_volatility(h) > 40
    \/ violation_type # None
    \/ (h.len > 3 /\ calculate_dialogue_entropy(h) > 80)

(* mutations of UseCache: without the trigger check, without any check *)
UseCacheUnlessAuthorized(cached, authorized, ignore) == ~ authorized

UseCacheAlways(cached, authorized, ignore) == TRUE

(* if cached and not authorized and not should_ignore_cache *)
UseCache(cached, authorized, ignore) ==
    cached # NoText /\ ~ authorized /\ ~ ignore

(* mutation of Compose: the personal anchor is added for every user *)
ComposeAnchored(mode, emotion, violation_type, authorized, ltm, budget) ==
    LET core == IF violation_type \in CORE_TEMPLATES THEN violation_type
                ELSE "base"
        with_mode == 15 + 20 <= budget /\ mode \in MODE_BOOSTERS
        t2 == IF with_mode THEN 35 ELSE 15
        with_emotion == t2 + 15 <= budget
        emotion_mod == IF emotion \in EMOTION_MODS THEN emotion ELSE "neutral"
        t3 == IF with_emotion THEN t2 + 15 ELSE t2
        with_anchor == t3 + 20 <= budget
        anchor == IF ltm THEN "ltm_anchor" ELSE "vector_anchor"
        t4 == IF with_anchor THEN t3 + 20 ELSE t3
    IN [text |-> <<core>>
                 \o (IF with_mode THEN <<mode>> ELSE <<>>)
                 \o (IF with_emotion THEN <<emotion_mod>> ELSE <<>>)
                 \o (IF with_anchor THEN <<anchor>> ELSE <<>>),
        tokens |-> t4]

(* The components chosen by priority and their fixed costs: the text composed
   and tokens_used *)
Compose(mode, emotion, violation_type, authorized, ltm, budget) ==
    LET core == IF violation_type \in CORE_TEMPLATES THEN violation_type
                ELSE "base"
        with_mode == 15 + 20 <= budget /\ mode \in MODE_BOOSTERS
        t2 == IF with_mode THEN 35 ELSE 15
        with_emotion == t2 + 15 <= budget
        emotion_mod == IF emotion \in EMOTION_MODS THEN emotion ELSE "neutral"
        t3 == IF with_emotion THEN t2 + 15 ELSE t2
        with_anchor == authorized /\ t3 + 20 <= budget
        anchor == IF ltm THEN "ltm_anchor" ELSE "vector_anchor"
        t4 == IF with_anchor THEN t3 + 20 ELSE t3
    IN [text |-> <<core>>
                 \o (IF with_mode THEN <<mode>> ELSE <<>>)
                 \o (IF with_emotion THEN <<emotion_mod>> ELSE <<>>)
                 \o (IF with_anchor THEN <<anchor>> ELSE <<>>),
        tokens |-> t4]

(* mutation of ShouldCache: every user's injection is cached *)
CacheForAll(authorized) == TRUE

(* if not authorized: cache the result and the last emotion *)
ShouldCache(authorized) == ~ authorized

(* mutation of _increment_injection_count: the counter is left alone *)
KeepInjectionCount(user_id, failed) == counter

_increment_injection_count(user_id, failed) ==
    IF "incr" \in failed THEN counter
    ELSE [counter EXCEPT ![user_id] = @ + 1]

(* What a call of generate_injection did: the path it took ("cached",
   "composed", or "raised" when a Redis command outside a try block failed),
   the text it got from the cache or composed, whether it issued the cache
   read, and the writes that took effect *)
Outcome(path, text, tokens, ignore, cache_read, cache_written, marker_written) ==
    [path |-> path, text |-> text, tokens |-> tokens, ignore |-> ignore,
     cache_read |-> cache_read, cache_written |-> cache_written,
     marker_written |-> marker_written]

NotCalled == Outcome("skipped", NoText, 0, FALSE, FALSE, FALSE, FALSE)

generate_injection(user_id, mode, emotion, h, violation_type, authorized, ltm, failed) ==
    LET cache_key == _generate_cache_key(user_id, mode, emotion, violation_type)
        ignore == should_ignore_cache(user_id, emotion, h, violation_type)
        cached == get_cached_injection(cache_key, failed)
        composed == Compose(mode, emotion, violation_type, authorized, ltm,
                            INJECTION_MAX_TOKENS)
        caches == ShouldCache(authorized)
    IN IF "marker_get" \in failed
       THEN \* self.redis.get(last_emotion_key) raises
            Outcome("raised", NoText, 0, FALSE, FALSE, FALSE, FALSE)
       ELSE IF UseCache(cached, authorized, ignore)
       THEN Outcome("cached", cached, 0, ignore, TRUE, FALSE, FALSE)
       ELSE IF caches /\ "marker_setex" \in failed
       THEN \* self.redis.setex(last_emotion) raises, after the cache write
            Outcome("raised", composed.text, composed.tokens, ignore, TRUE,
                    "cache_setex" \notin failed, FALSE)
       ELSE Outcome("composed", composed.text, composed.tokens, ignore, TRUE,
                    caches /\ "cache_setex" \notin failed, caches)

(* The frame of a context build: its arguments and what it did *)
Frame(fn, user_id, mode, emotion, h, violation_type, authorized, ltm, failed, budget, asked, should, outcome) ==
    [fn |-> fn, user_id |-> user_id, mode |-> mode, emotion |-> emotion,
     history |-> h, violation_type |-> violation_type,
     is_authorized |-> authorized, ltm |-> ltm, failed |-> failed,
     budget |-> budget, asked |-> asked, should |-> should,
     outcome |-> outcome]

NoFrame ==
    Frame("none", 0, None, None, [len |-> 0, entropy |-> 0, volatility |-> 0],
          None, FALSE, FALSE, {}, 0, FALSE, FALSE, NotCalled)

InjectionIdle ==
    /\ counter = [u \in Users |-> 0]
    /\ cache = <<>>
    /\ marker = [u \in Users |-> None]
    /\ fired = [u \in Users |-> 0]
    /\ call = NoFrame

(* The injection part of build_enhanced_context_with_ltm_smart for one user
   message: should_inject is asked unless the last reply violated the format;
   an exception of generate_injection is caught and the plain injection prompt
   is used instead *)
BuildContext(user_id) ==
    /\ call = NoFrame
    /\ fired[user_id] < MaxFired
    /\ \E mode \in Modes, emotion \in Emotions, h \in Histories,
          violation_type \in ViolationTypes, authorized \in BOOLEAN,
          ltm \in BOOLEAN, failed \in FailureSamples :
          LET entropy == calculate_dialogue_entropy(h)
              asked == violation_type = None
              should == asked /\ should_inject(user_id, entropy, failed)
              r == IF violation_type # None \/ should
                   THEN generate_injection(user_id, mode, emotion, h,
                            violation_type, authorized, ltm, failed)
                   ELSE NotCalled
              cache_key == _generate_cache_key(user_id, mode, emotion,
                                               violation_type)
          IN /\ authorized \/ ~ ltm
             /\ r.cache_written
                  => \/ cache_key \in DOMAIN cache
                     \/ Cardinality(DOMAIN cache) < MaxCached
             /\ cache' = IF r.cache_written
                         THEN [k \in DOMAIN cache \cup {cache_key} |->
                                 IF k = cache_key THEN r.text ELSE cache[k]]
                         ELSE cache
             /\ marker' = IF r.marker_written
                          THEN [marker EXCEPT ![user_id] = emotion]
                          ELSE marker
             /\ counter' = IF r.path = "composed"
                           THEN _increment_injection_count(user_id, failed)
                           ELSE counter
             /\ fired' = IF r.path \in {"cached", "composed"}
                         THEN [fired EXCEPT ![user_id] = @ + 1]
                         ELSE fired
             /\ call' = Frame("build_enhanced_context_with_ltm_smart", user_id,
                              mode, emotion, h, violation_type, authorized,
                              ltm, failed, INJECTION_MAX_TOKENS, asked, should,
                              r)
    /\ UNCHANGED <<pvars, xvars>>

(* The build returns to handle_message *)
ContextReturn ==
    /\ call.fn = "build_enhanced_context_with_ltm_smart"
    /\ call' = NoFrame
    /\ UNCHANGED <<counter, cache, marker, fired>>
    /\ UNCHANGED <<pvars, xvars>>

(* /start: reset_user_counter deletes the counter; a Redis error is logged *)
reset_user_counter(user_id) ==
    /\ call = NoFrame
    /\ \E deleted \in BOOLEAN :
          IF deleted
          THEN /\ counter' = [counter EXCEPT ![user_id] = 0]
               /\ fired' = [fired EXCEPT ![user_id] = 0]
          ELSE UNCHANGED <<counter, fired>>
    /\ UNCHANGED <<cache, marker, call>>
    /\ UNCHANGED <<pvars, xvars>>

(* The counter's key expires 24 hours after the last increment *)
CounterExpires(user_id) ==
    /\ call = NoFrame
    /\ counter[user_id] > 0
    /\ counter' = [counter EXCEPT ![user_id] = 0]
    /\ fired' = [fired EXCEPT ![user_id] = 0]
    /\ UNCHANGED <<cache, marker, call>>
    /\ UNCHANGED <<pvars, xvars>>

(* A cache entry expires, or background_cache_recalibration deletes it *)
CacheExpires(cache_key) ==
    /\ call = NoFrame
    /\ cache_key \in DOMAIN cache
    /\ cache' = [k \in DOMAIN cache \ {cache_key} |-> cache[k]]
    /\ UNCHANGED <<counter, marker, fired, call>>
    /\ UNCHANGED <<pvars, xvars>>

(* The last-emotion marker expires after 24 hours *)
MarkerExpires(user_id) ==
    /\ call = NoFrame
    /\ marker[user_id] # None
    /\ marker' = [marker EXCEPT ![user_id] = None]
    /\ UNCHANGED <<counter, cache, fired, call>>
    /\ UNCHANGED <<pvars, xvars>>
---------------------------------------------------------------------------
(* The dispatch sweep: run_proactive_sender -> send_scheduled_initiations *)

(* Variant of the selection that forgets the status filter: every due row *)
DueInitiations ==
    Limit(OrderByScheduledAt({i \in Indices(schedule) :
            schedule[i].scheduled_at <= now}),
          BATCH_LIMIT)

_get_pending_initiations ==
    Limit(OrderByScheduledAt({i \in Indices(schedule) :
            schedule[i].status = "pending" /\ schedule[i].scheduled_at <= now}),
          BATCH_LIMIT)

(* UPDATE initiation_schedule SET status = 'sent', sent_at = NOW() WHERE id = %s *)
UpdateSent(id) ==
    [schedule EXCEPT ![id].status = "sent", ![id].sent_at = now]

(* Variant of the failure record that writes nothing *)
KeepPending(id, error) == schedule

(* Variant of the failure record that drops the error text *)
MarkFailedWithoutError(id, error) ==
    [schedule EXCEPT ![id].status = "failed"]

(* UPDATE initiation_schedule SET status = 'failed', error_message = %s WHERE id = %s *)
_mark_initiation_failed(id, error) ==
    [schedule EXCEPT ![id].status = "failed", ![id].error_message = error]

(* The sweep moves to the next row of the batch, or ends *)
NextRow ==
    /\ message' = NoMessage
    /\ success' = FALSE
    /\ IF pos < Len(batch)
       THEN spc' = "gen" /\ pos' = pos + 1 /\ batch' = batch
       ELSE spc' = "idle" /\ pos' = 1 /\ batch' = <<>>

(* The exception leaves send_scheduled_initiations; run_proactive_sender logs it.
   pos and batch stay as the sweep left them until the next sweep starts. *)
AbortSweep ==
    /\ spc' = "idle"
    /\ message' = NoMessage
    /\ success' = FALSE
    /\ pos' = pos
    /\ batch' = batch

SenderStart ==
    /\ Running("sender_loop")
    /\ LoopFree
    /\ spc = "idle"
    /\ IF get_connection
       THEN /\ batch' = _get_pending_initiations
            /\ pos' = 1
            /\ spc' = IF _get_pending_initiations = <<>> THEN "idle" ELSE "gen"
       ELSE \* _get_pending_initiations raises
            /\ batch' = <<>>
            /\ pos' = 1
            /\ spc' = "idle"
    /\ UNCHANGED ivars
    /\ tasks' = IF get_connection THEN tasks ELSE Caught("sender_loop")
    /\ UNCHANGED <<delivered, racers>>
    /\ UNCHANGED <<now, storeUp, settings, schedule, logs, history,
                   message, success, kpc, kusers, kpos, inflight, ret>>

(* _generate_initiation_message, then _send_initiation_message up to its await *)
SenderGenerate ==
    /\ Running("sender_loop")
    /\ spc = "gen"
    /\ IF get_connection
       THEN \E outcome \in LlmOutcomes :
               /\ message' = [row |-> batch[pos], text |-> ask_deepseek(outcome)]
               /\ spc' = "send"
       ELSE \* get_recent_history raises
            /\ message' = message
            /\ spc' = "handler"
    /\ UNCHANGED ivars
    /\ UNCHANGED xvars
    /\ UNCHANGED <<now, storeUp, settings, schedule, logs, history,
                   batch, pos, success, kpc, kusers, kpos, inflight, ret>>

(* bot.send_message returns or raises; _send_initiation_message returns a bool.
   The sweep resumes only when the scheduling sweep, which never yields, is over. *)
SenderSendReturn ==
    /\ Running("sender_loop")
    /\ spc = "send"
    /\ kpc = "idle"
    /\ success' \in BOOLEAN
    /\ spc' = "mark"
    /\ UNCHANGED ivars
    /\ delivered' = IF success' THEN Deliver(batch[pos]) ELSE delivered
    /\ UNCHANGED <<tasks, racers>>
    /\ UNCHANGED <<now, storeUp, settings, schedule, logs, history, batch, pos,
                   message, kpc, kusers, kpos, inflight, ret>>

(* add_message_to_history(user_id, "assistant", message, bot_mode="proactive") *)
ProactiveHistory(user_id, msg) ==
    Append(history, HistoryRow(user_id, "assistant", msg, "", "proactive"))

(* _mark_initiation_sent(id, message), the store reachable throughout *)
MarkSentCommitted(id, msg) ==
    /\ schedule' = UpdateSent(id)
    /\ logs' = Append(logs, LogRow(schedule[id].user_id, id, msg))
    /\ history' = ProactiveHistory(schedule[id].user_id, msg)

(* the transaction commits, then add_message_to_history raises: the except clause
   logs the error and its rollback undoes nothing *)
MarkSentWithoutHistory(id, msg) ==
    /\ schedule' = UpdateSent(id)
    /\ logs' = Append(logs, LogRow(schedule[id].user_id, id, msg))
    /\ history' = history

SenderMarkSent ==
    IF get_connection
    THEN \/ /\ MarkSentCommitted(batch[pos], message)
            /\ storeUp' = storeUp
            /\ NextRow
         \/ \* the store is lost after the commit
            /\ MarkSentWithoutHistory(batch[pos], message)
            /\ storeUp' = FALSE
            /\ NextRow
         \/ \* the store is lost after the commit and the except clause's
            \* rollback raises on the broken connection
            /\ MarkSentWithoutHistory(batch[pos], message)
            /\ storeUp' = FALSE
            /\ UNCHANGED <<message, success, pos, batch>>
            /\ spc' = "handler"
         \/ \* the store is lost before the commit: rollback, the error is swallowed
            /\ UNCHANGED <<schedule, logs, history>>
            /\ storeUp' = FALSE
            /\ NextRow
         \/ \* the store is lost before the commit and the rollback raises
            /\ UNCHANGED <<schedule, logs, history, message, success, pos, batch>>
            /\ storeUp' = FALSE
            /\ spc' = "handler"
    ELSE \* get_connection raises, outside the try of _mark_initiation_sent
         /\ UNCHANGED <<storeUp, schedule, logs, history, message, success, pos,
                        batch>>
         /\ spc' = "handler"

SenderMarkFailed ==
    IF get_connection
    THEN /\ schedule' = _mark_initiation_failed(batch[pos],
                                                "Failed to send via Telegram")
         /\ UNCHANGED <<storeUp, logs, history>>
         /\ NextRow
    ELSE \* _mark_initiation_failed raises: the except clause of the sweep
         /\ UNCHANGED <<storeUp, schedule, logs, history, message, success, pos,
                        batch>>
         /\ spc' = "handler"

SenderMark ==
    /\ Running("sender_loop")
    /\ spc = "mark"
    /\ IF success THEN SenderMarkSent ELSE SenderMarkFailed
    /\ UNCHANGED ivars
    /\ UNCHANGED xvars
    /\ UNCHANGED <<now, settings, kpc, kusers, kpos, inflight, ret>>

(* except Exception as e: self._mark_initiation_failed(initiation['id'], str(e)) *)
SenderHandler ==
    /\ Running("sender_loop")
    /\ spc = "handler"
    /\ IF get_connection
       THEN /\ schedule' = _mark_initiation_failed(batch[pos], "exception")
            /\ NextRow
       ELSE \* _mark_initiation_failed raises inside the except clause
            /\ schedule' = schedule
            /\ AbortSweep
    /\ UNCHANGED ivars
    /\ tasks' = IF get_connection THEN tasks ELSE Caught("sender_loop")
    /\ UNCHANGED <<delivered, racers>>
    /\ UNCHANGED <<now, storeUp, settings, logs, history, kpc, kusers,
                   kpos, inflight, ret>>

---------------------------------------------------------------------------
(* The scheduling sweep: run_proactive_scheduler -> check_and_schedule_initiations.
   It contains no real suspension point: it keeps the event loop until it ends. *)

_get_eligible_users ==
    {u \in DOMAIN settings :
        /\ settings[u].is_enabled
        /\ (settings[u].paused_until = NULL \/ settings[u].paused_until < now)
        /\ is_authorized(u)
        /\ get_or_assign_ab_group(u) = "A"}

RECURSIVE SetToSeq(_)
SetToSeq(S) ==
    IF S = {} THEN <<>>
    ELSE LET m == CHOOSE x \in S : \A y \in S : x <= y
         IN <<m>> \o SetToSeq(S \ {m})

LocalTime(user_id, t) == t + _get_user_timezone(user_id)

(* The local hours of the day in which the user wrote in the last 30 days: the
   hours whose normalised weight is positive *)
_get_user_activity_hours(user_id) ==
    {(LocalTime(user_id, history[i].created_at) % Day) \div Hour : i \in
        {j \in Indices(history) :
            /\ history[j].user_id = user_id
            /\ history[j].role = "user"
            /\ history[j].created_at > now - 30 * Day}}

(* The hours random.randint / random.choices can return *)
HourChoices(user_id) ==
    IF _get_user_activity_hours(user_id) = {}
    THEN (INITIATION_ACTIVE_HOURS_START + 2) .. (INITIATION_ACTIVE_HOURS_END - 2)
    ELSE {h \in 0 .. 23 :
            /\ h >= INITIATION_ACTIVE_HOURS_START
            /\ h < INITIATION_ACTIVE_HOURS_END
            /\ h \in _get_user_activity_hours(user_id)}

(* Variant of the time calculation without the roll to the next day *)
UnrolledTime(user_id, hour, minute, deviation_minutes) ==
    LET local_now == LocalTime(user_id, now)
        midnight == local_now - (local_now % Day)
    IN midnight + hour * Hour + minute * Minute + deviation_minutes * Minute
          - _get_user_timezone(user_id)

_calculate_optimal_time(user_id, hour, minute, deviation_minutes) ==
    LET local_now == LocalTime(user_id, now)
        midnight == local_now - (local_now % Day)
        target_time == midnight + hour * Hour + minute * Minute
                          + deviation_minutes * Minute
        rolled == IF target_time <= local_now THEN target_time + Day
                  ELSE target_time
    IN rolled - _get_user_timezone(user_id)

(* INSERT INTO initiation_schedule (...) VALUES (..., 'pending') *)
_schedule_initiation(user_id, scheduled_time) ==
    Append(schedule, ScheduleRow(user_id, scheduled_time))


negative_emotions == {"sadness", "anger", "fear", "disgust"}
positive_emotions == {"joy", "surprise", "love"}

(* recent_emotions = user_emotions[:10] *)
TrendWindow == 10

(* get_recent_history(user_id, limit=50) in _analyze_initiation_opportunities *)
OpportunityHistoryLimit == 50

(* get_recent_history: ORDER BY created_at DESC LIMIT limit, then reversed: the
   limit newest rows of the user, oldest first *)
get_recent_history(user_id, limit) ==
    LET rows == SelectSeq(history, LAMBDA m : m.user_id = user_id)
    IN IF Len(rows) <= limit THEN rows
       ELSE SubSeq(rows, Len(rows) - limit + 1, Len(rows))

(* _analyze_emotion_trajectory: the emotions of the user's tagged turns in the
   order of the list it is given; the current emotion is element 0 and the
   counts are taken over the slice [:10] *)
_analyze_emotion_trajectory(hist) ==
    LET user_emotions == SelectSeq(hist,
            LAMBDA m : m.role = "user" /\ m.emotion_primary # "")
        recent_emotions == IF Len(user_emotions) <= TrendWindow
                           THEN user_emotions
                           ELSE SubSeq(user_emotions, 1, TrendWindow)
        negative_count == Cardinality({i \in DOMAIN recent_emotions :
            recent_emotions[i].emotion_primary \in negative_emotions})
        positive_count == Cardinality({i \in DOMAIN recent_emotions :
            recent_emotions[i].emotion_primary \in positive_emotions})
    IN IF user_emotions = <<>>
       THEN [current_emotion |-> "neutral", trend |-> "stable",
             needs_support |-> FALSE]
       ELSE IF negative_count > positive_count * 2
       THEN [current_emotion |-> user_emotions[1].emotion_primary,
             trend |-> "declining", needs_support |-> TRUE]
       ELSE IF positive_count > negative_count * 2
       THEN [current_emotion |-> user_emotions[1].emotion_primary,
             trend |-> "improving", needs_support |-> FALSE]
       ELSE [current_emotion |-> user_emotions[1].emotion_primary,
             trend |-> "stable", needs_support |-> negative_count >= 3]

(* _find_supportive_opportunities without relevant memories: a candidate only
   when needs_support and trend = 'declining' *)
Declining(user_id) ==
    LET emotion_trajectory == _analyze_emotion_trajectory(
            get_recent_history(user_id, OpportunityHistoryLimit))
    IN emotion_trajectory.needs_support /\ emotion_trajectory.trend = "declining"

(* The numbers of recent long-term memories of a user the model explores *)
MemorySamples == {0, 1}

(* _analyze_initiation_opportunities: whether the list of candidates can be
   non-empty.  Continuation and insight candidates come from memories, a
   supportive candidate from memories or from a declining emotional trend;
   random.random() and the quality filter may discard every one of them. *)
_analyze_initiation_opportunities(user_id, memories) ==
    IF memories > 0 \/ Declining(user_id) THEN {TRUE, FALSE} ELSE {FALSE}

(* What the loop body did for one user: the last function it called, whether it
   found something to schedule, and whether it raised *)
Handled(fn, user_id, value, raised) ==
    [fn |-> fn, user_id |-> user_id, value |-> value, raised |-> raised]

(* mutations of NextUser: the loop ends after the user; the sweep is abandoned *)
LeaveLoop ==
    kpc' = "done" /\ kpos' = 1 /\ kusers' = <<>>

AbandonSweep ==
    IF ret'.raised
    THEN kpc' = "idle" /\ kpos' = 1 /\ kusers' = <<>>
    ELSE IF kpos < Len(kusers)
    THEN kpc' = "loop" /\ kpos' = kpos + 1 /\ kusers' = kusers
    ELSE kpc' = "done" /\ kpos' = 1 /\ kusers' = <<>>

(* for user_id in eligible_users: the next user, or the end of the loop *)
NextUser ==
    IF kpos < Len(kusers)
    THEN kpc' = "loop" /\ kpos' = kpos + 1 /\ kusers' = kusers
    ELSE kpc' = "done" /\ kpos' = 1 /\ kusers' = <<>>

SchedStart ==
    /\ Running("scheduler_loop")
    /\ LoopFree
    /\ kpc = "idle"
    /\ IF get_connection
       THEN /\ kusers' = SetToSeq(_get_eligible_users)
            /\ kpc' = IF _get_eligible_users = {} THEN "idle" ELSE "loop"
       ELSE \* _get_eligible_users raises: run_proactive_scheduler logs it
            /\ kusers' = <<>>
            /\ kpc' = "idle"
    /\ kpos' = 1
    /\ UNCHANGED ivars
    /\ tasks' = IF get_connection THEN tasks ELSE Caught("scheduler_loop")
    /\ UNCHANGED <<delivered, racers>>
    /\ UNCHANGED <<now, storeUp, settings, schedule, logs, history, spc,
                   batch, pos, message, success, inflight, ret>>

(* One user of the sweep: the eligibility check, the opportunity mining (which
   may find nothing), the choice of the time, the insert *)
ScheduleFor(user_id) ==
    IF ~ _should_schedule_initiation(user_id)
    THEN /\ schedule' = schedule
         /\ storeUp' = storeUp
         /\ ret' = Handled("_should_schedule_initiation", user_id, FALSE, FALSE)
    ELSE \E memories \in MemorySamples :
         \E found \in _analyze_initiation_opportunities(user_id, memories) :
            IF ~ found
            THEN /\ schedule' = schedule
                 /\ storeUp' = storeUp
                 /\ ret' = Handled("_analyze_initiation_opportunities",
                                   user_id, FALSE, FALSE)
            ELSE IF HourChoices(user_id) = {}
            THEN \* random.choices raises ValueError: every weight is zero
                 /\ schedule' = schedule
                 /\ storeUp' = storeUp
                 /\ ret' = Handled("_calculate_optimal_time", user_id, TRUE, TRUE)
            ELSE \/ /\ Len(schedule) - racers.base < MaxRows
                    /\ \E hour \in HourChoices(user_id),
                          minute \in SampleMinutes,
                          deviation \in SampleDeviations :
                          schedule' = _schedule_initiation(user_id,
                              _calculate_optimal_time(user_id, hour, minute,
                                                      deviation))
                    /\ storeUp' = storeUp
                    /\ ret' = Handled("_schedule_initiation", user_id, TRUE, FALSE)
                 \/ \* the store fails before the insert: get_connection raises
                    /\ schedule' = schedule
                    /\ storeUp' = FALSE
                    /\ ret' = Handled("_schedule_initiation", user_id, TRUE, TRUE)

SchedUser ==
    /\ Running("scheduler_loop")
    /\ kpc = "loop"
    /\ IF get_connection
       THEN ScheduleFor(kusers[kpos])
       ELSE \* a store call raises: the sweep's except clause logs it
            /\ schedule' = schedule
            /\ storeUp' = storeUp
            /\ ret' = Handled("_should_schedule_initiation", kusers[kpos],
                              FALSE, TRUE)
    /\ NextUser
    /\ UNCHANGED ivars
    /\ UNCHANGED xvars
    /\ UNCHANGED <<now, settings, logs, history, spc, batch,
                   pos, message, success, inflight>>

(* The loop is over: the sweep logs its total and returns to scheduler_loop *)
SchedEnd ==
    /\ Running("scheduler_loop")
    /\ kpc = "done"
    /\ kpc' = "idle"
    /\ ret' = NoCall
    /\ UNCHANGED ivars
    /\ UNCHANGED xvars
    /\ UNCHANGED <<now, storeUp, settings, schedule, logs, history, spc,
                   batch, pos, message, success, kusers, kpos, inflight>>
---------------------------------------------------------------------------
(* The opt-in, opt-out and pause commands (proactive_commands.py).  While the
   store is unreachable a command raises before it writes anything. *)

is_proactivity_enabled(user_id) ==
    /\ settings[user_id].is_enabled
    /\ ~ (settings[user_id].paused_until # NULL
          /\ settings[user_id].paused_until > now)

(* Variant of the cancellation that cancels only the earliest matching row *)
CancelOnePending(user_id, until) ==
    LET S == {i \in Indices(schedule) :
                /\ schedule[i].user_id = user_id
                /\ schedule[i].status = "pending"
                /\ (until = NULL \/ schedule[i].scheduled_at <= until)}
    IN [i \in Indices(schedule) |->
          IF i \in S /\ \A j \in S : i <= j
          THEN [schedule[i] EXCEPT !.status = "cancelled"]
          ELSE schedule[i]]

(* rows of the user that are pending and satisfy the extra condition *)
CancelPending(user_id, until) ==
    [i \in Indices(schedule) |->
        IF /\ schedule[i].user_id = user_id
           /\ schedule[i].status = "pending"
           /\ (until = NULL \/ schedule[i].scheduled_at <= until)
        THEN [schedule[i] EXCEPT !.status = "cancelled"]
        ELSE schedule[i]]

enable_proactivity(user_id) ==
    [settings EXCEPT ![user_id] = [is_enabled |-> TRUE, paused_until |-> NULL]]

disable_proactivity(user_id) ==
    /\ settings' = [settings EXCEPT ![user_id].is_enabled = FALSE]
    /\ schedule' = CancelPending(user_id, NULL)

set_proactivity_pause(user_id, pause_until) ==
    /\ settings' = [settings EXCEPT ![user_id].paused_until = pause_until]
    /\ schedule' = CancelPending(user_id, pause_until)

(* /writeme *)
WritemeCommand(user_id) ==
    /\ LoopFree /\ NoUpdateInHandling
    /\ get_connection
    /\ is_authorized(user_id)
    /\ get_or_assign_ab_group(user_id) = "A"
    /\ settings' = enable_proactivity(user_id)
    /\ UNCHANGED <<ivars, xvars>>
    /\ UNCHANGED <<now, storeUp, schedule, logs, history, spc, batch,
                   pos, message, success, kpc, kusers, kpos, inflight,
                   ret>>

(* /dontwrite *)
DontwriteCommand(user_id) ==
    /\ LoopFree /\ NoUpdateInHandling
    /\ get_connection
    /\ is_proactivity_enabled(user_id)
    /\ disable_proactivity(user_id)
    /\ UNCHANGED <<ivars, xvars>>
    /\ UNCHANGED <<now, storeUp, logs, history, spc, batch, pos,
                   message, success, kpc, kusers, kpos, inflight, ret>>

(* /writeme_pause <duration> *)
WritemePauseCommand(user_id) ==
    /\ LoopFree /\ NoUpdateInHandling
    /\ get_connection
    /\ is_proactivity_enabled(user_id)
    /\ \E d \in PauseDurations : set_proactivity_pause(user_id, now + d)
    /\ UNCHANGED <<ivars, xvars>>
    /\ UNCHANGED <<now, storeUp, logs, history, spc, batch, pos,
                   message, success, kpc, kusers, kpos, inflight, ret>>

---------------------------------------------------------------------------
(* The cleanup sweep (cron_jobs.py) *)

cleanup_old_initiations ==
    /\ schedule' = [i \in Indices(schedule) |->
          IF /\ schedule[i].status = "pending"
             /\ schedule[i].scheduled_at < now - 48 * Hour
          THEN [schedule[i] EXCEPT !.status = "cancelled"]
          ELSE schedule[i]]
    /\ logs' = [i \in Indices(logs) |->
          IF logs[i].created_at < now - 30 * Day
          THEN [logs[i] EXCEPT !.deleted = TRUE]
          ELSE logs[i]]

CleanupSweep ==
    /\ LoopFree
    /\ Running("cleanup_loop")
    /\ IF get_connection
       THEN cleanup_old_initiations /\ tasks' = tasks
       ELSE \* get_connection raises: cleanup_loop logs the error
            /\ UNCHANGED <<schedule, logs>>
            /\ tasks' = Caught("cleanup_loop")
    /\ UNCHANGED ivars
    /\ UNCHANGED <<delivered, racers>>
    /\ UNCHANGED <<now, storeUp, settings, history, spc, batch, pos,
                   message, success, kpc, kusers, kpos, inflight, ret>>

---------------------------------------------------------------------------
(* The response correlator: process_user_response, called by handle_message *)

(* Variant of the candidate query that forgets user_responded = FALSE *)
AllRecent(user_id) ==
    {i \in LiveLogs :
        /\ logs[i].user_id = user_id
        /\ logs[i].created_at > now - 24 * Hour}

(* WHERE user_id = %s AND user_responded = FALSE
   AND created_at > NOW() - INTERVAL '24 hours' *)
UnrespondedRecent(user_id) ==
    {i \in LiveLogs :
        /\ logs[i].user_id = user_id
        /\ logs[i].user_responded = FALSE
        /\ logs[i].created_at > now - 24 * Hour}

(* Variant of the ordering: ORDER BY created_at ASC, an oldest entry *)
OldestFirst(S) == {i \in S : \A j \in S : logs[i].created_at <= logs[j].created_at}

(* ORDER BY created_at DESC LIMIT 1: a newest entry (any of them on a tie) *)
MostRecent(S) == {i \in S : \A j \in S : logs[j].created_at <= logs[i].created_at}

(* int((now - created_at).total_seconds() / 60) *)
response_time_minutes(created_at) == (now - created_at) \div Minute

UpdateLog(id, length) ==
    [logs EXCEPT ![id].user_responded = TRUE,
                 ![id].user_response_length = length,
                 ![id].response_time_minutes =
                        response_time_minutes(logs[id].created_at)]

(* if log_entry['initiation_id']: UPDATE initiation_schedule
   SET user_response_received = TRUE WHERE id = %s *)
UpdateResponseReceived(initiation_id) ==
    IF initiation_id # 0 /\ initiation_id \in Indices(schedule)
    THEN [schedule EXCEPT ![initiation_id].user_response_received = TRUE]
    ELSE schedule

Returned(user_id, value, raised) ==
    [fn |-> "process_user_response", user_id |-> user_id, value |-> value,
     raised |-> raised]

process_user_response(user_id, length) ==
    \/ /\ UnrespondedRecent(user_id) = {}
       /\ UNCHANGED <<logs, schedule>>
       /\ ret' = Returned(user_id, FALSE, FALSE)
    \/ \E id \in MostRecent(UnrespondedRecent(user_id)) :
          /\ logs' = UpdateLog(id, length)
          /\ schedule' = UpdateResponseReceived(logs[id].initiation_id)
          /\ ret' = Returned(user_id, TRUE, FALSE)

(* The user messages handled since the initial state *)
NumUserMessages ==
    Cardinality({i \in Indices(history) :
        history[i].role = "user" /\ history[i].created_at >= StartTime})

(* handle_message up to the await of the language-model call: the user's message
   goes to history (while the store is unreachable the handler ends there) *)
HandleMessageBegin(user_id) ==
    /\ LoopFree /\ NoUpdateInHandling
    /\ get_connection
    /\ NumUserMessages < MaxMsgs
    /\ \E kind \in MessageKinds :
          /\ history' = Append(history, HistoryRow(user_id, "user", "text",
                                                    kind.emotion, "auto"))
          /\ inflight' = [user_id |-> user_id, emotion |-> kind.emotion,
                          length |-> kind.length, received_at |-> now]
    /\ ret' = NoCall
    /\ UNCHANGED <<ivars, xvars>>
    /\ UNCHANGED <<now, storeUp, settings, schedule, logs, spc, batch,
                   pos, message, success, kpc, kusers, kpos>>

(* handle_message from the model's answer on: the reply goes to history, then the
   correlator hook runs *)
HandleMessageEnd ==
    /\ LoopFree /\ ~ NoUpdateInHandling
    /\ IF get_connection
       THEN \/ /\ history' = Append(history, HistoryRow(inflight.user_id,
                                        "assistant", "text", "", "auto"))
               /\ process_user_response(inflight.user_id, inflight.length)
               /\ storeUp' = storeUp
            \/ \* the store is lost after the reply is saved: get_connection
               \* raises in process_user_response and handle_message logs it
               /\ history' = Append(history, HistoryRow(inflight.user_id,
                                        "assistant", "text", "", "auto"))
               /\ ret' = Returned(inflight.user_id, FALSE, TRUE)
               /\ storeUp' = FALSE
               /\ UNCHANGED <<logs, schedule>>
       ELSE \* add_message_to_history raises: the hook is never reached
            UNCHANGED <<history, ret, storeUp, logs, schedule>>
    /\ inflight' = NoUpdate
    /\ UNCHANGED <<ivars, xvars>>
    /\ UNCHANGED <<now, settings, spc, batch, pos, message, success, kpc, kusers, kpos>>

---------------------------------------------------------------------------
(* The clock *)

Tick ==
    /\ LoopFree
    /\ \E step \in TickSteps :
          /\ now + step \in ClockValues
          /\ now' = now + step
    /\ UNCHANGED <<ivars, xvars>>
    /\ UNCHANGED <<storeUp, settings, schedule, logs, history, spc,
                   batch, pos, message, success, kpc, kusers, kpos,
                   inflight, ret>>

---------------------------------------------------------------------------
(* The initial state: the users are opted in (PROACTIVITY_DEFAULT_STATE is "ON")
   and each of them has written once, the day before at 09:00 local time;
   nothing is scheduled. *)

InitialHistory ==
    [i \in 1 .. Cardinality(Users) |->
        [user_id |-> SetToSeq(Users)[i], role |-> "user", content |-> "text",
         emotion_primary |-> "joy", bot_mode |-> "auto",
         created_at |-> StartTime - Day + 2 * Hour]]

SweepsIdle ==
    /\ spc = "idle" /\ batch = <<>> /\ pos = 1
    /\ message = NoMessage /\ success = FALSE
    /\ kpc = "idle" /\ kusers = <<>> /\ kpos = 1
    /\ inflight = NoUpdate /\ ret = NoCall

Init ==
    /\ now = StartTime
    /\ storeUp = TRUE
    /\ settings = [u \in Users |-> [is_enabled |-> TRUE, paused_until |-> NULL]]
    /\ schedule = <<>>
    /\ logs = <<>>
    /\ history = InitialHistory
    /\ SweepsIdle
    /\ InjectionIdle
    /\ CronStarted

Next ==
    \/ SenderStart
    \/ SenderGenerate
    \/ SenderSendReturn
    \/ SenderMark
    \/ SenderHandler
    \/ SchedStart
    \/ SchedUser
    \/ SchedEnd
    \/ \E u \in Users : WritemeCommand(u)
    \/ \E u \in Users : DontwriteCommand(u)
    \/ \E u \in Users : WritemePauseCommand(u)
    \/ CleanupSweep
    \/ StoreFails
    \/ StoreRecovers
    \/ Tick

Spec == Init /\ [][Next]_vars

(* The scheduling and dispatch sweeps alone, with the store failing and the
   /dontwrite command interfering *)
NextDispatch ==
    \/ SenderStart
    \/ SenderGenerate
    \/ SenderSendReturn
    \/ SenderMark
    \/ SenderHandler
    \/ SchedStart
    \/ SchedUser
    \/ SchedEnd
    \/ \E u \in Users : DontwriteCommand(u)
    \/ StoreFails
    \/ StoreRecovers
    \/ Tick

SpecDispatch == Init /\ [][NextDispatch]_vars

---------------------------------------------------------------------------
(* The eligibility gate on its own: the tables are drawn from the states the
   engine leaves behind, and the gate is evaluated on them.

   Row 1 was scheduled yesterday evening; rows 2, 3, ... today, three hours
   apart from 07:00 UTC on.  A row is pending, cancelled, or sent; a sent row has
   its log entry, which the user ignored, answered, or answered briefly. *)

EligDay == today_start(StartTime)

EligSlot(i) ==
    IF i = 1 THEN EligDay - 5 * Hour
    ELSE EligDay + 7 * Hour + (i - 2) * MIN_INITIATION_INTERVAL_HOURS * Hour

RowKinds == {"pending", "cancelled", "ignored", "answered", "answered_short"}

SentKinds == {"ignored", "answered", "answered_short"}

(* A schedule row scheduled at `at`, as the engine leaves it in state `kind` *)
DrawnScheduleRow(user_id, at, kind) ==
    [user_id |-> user_id, scheduled_at |-> at,
     status |-> IF kind \in SentKinds THEN "sent" ELSE kind,
     sent_at |-> IF kind \in SentKinds THEN at ELSE NULL,
     error_message |-> "",
     user_response_received |-> kind \in {"answered", "answered_short"}]

(* The log entry of sent row i, sent at `at` *)
DrawnLogRow(user_id, i, at, kind) ==
    [user_id |-> user_id, initiation_id |-> i,
     message_content |-> [row |-> i, text |-> "answer"],
     created_at |-> at,
     user_responded |-> kind # "ignored",
     response_time_minutes |-> IF kind = "ignored" THEN NULL ELSE 1,
     user_response_length |->
        CASE kind = "ignored" -> NULL
          [] kind = "answered" -> 2 * SILENCE_MIN_RESPONSE_LENGTH
          [] OTHER -> SILENCE_MIN_RESPONSE_LENGTH \div 2,
     deleted |-> FALSE]

EligScheduleRow(user_id, i, kind) == DrawnScheduleRow(user_id, EligSlot(i), kind)

EligLogRow(user_id, i, kind) == DrawnLogRow(user_id, i, EligSlot(i), kind)

(* The log entries of the sent rows of kinds, in row order *)
RECURSIVE EligLogs(_, _, _)
EligLogs(user_id, kinds, i) ==
    IF i > Len(kinds) THEN <<>>
    ELSE (IF kinds[i] \in SentKinds
          THEN <<EligLogRow(user_id, i, kinds[i])>> ELSE <<>>)
         \o EligLogs(user_id, kinds, i + 1)

UserMessage(user_id, emotion, at) ==
    [user_id |-> user_id, role |-> "user", content |-> "text",
     emotion_primary |-> emotion, bot_mode |-> "auto", created_at |-> at]

(* What the user wrote before: once the evening before; three sad messages in
   the last hours; nothing for nine days; three sad messages more than a day
   ago and nothing since; five messages of the last hours, three of them sad;
   six messages of the last hours, two of the newest five sad *)
EligHistories(user_id, t) ==
    {<<UserMessage(user_id, "joy", EligDay - 4 * Hour)>>,
     <<UserMessage(user_id, "sadness", t - 3 * Hour),
       UserMessage(user_id, "fear", t - 2 * Hour),
       UserMessage(user_id, "anger", t - 1 * Hour)>>,
     <<UserMessage(user_id, "joy", t - 9 * Day)>>,
     <<UserMessage(user_id, "sadness", t - 27 * Hour),
       UserMessage(user_id, "fear", t - 26 * Hour),
       UserMessage(user_id, "anger", t - 25 * Hour)>>,
     <<UserMessage(user_id, "joy", t - 5 * Hour),
       UserMessage(user_id, "sadness", t - 4 * Hour),
       UserMessage(user_id, "joy", t - 3 * Hour),
       UserMessage(user_id, "fear", t - 2 * Hour),
       UserMessage(user_id, "anger", t - 1 * Hour)>>,
     <<UserMessage(user_id, "sadness", t - 6 * Hour),
       UserMessage(user_id, "sadness", t - 5 * Hour),
       UserMessage(user_id, "joy", t - 4 * Hour),
       UserMessage(user_id, "joy", t - 3 * Hour),
       UserMessage(user_id, "joy", t - 2 * Hour),
       UserMessage(user_id, "anger", t - 1 * Hour)>>}

EligNows == {EligSlot(MaxEligRows) + 2 * Hour,
             EligSlot(MaxEligRows) + MIN_INITIATION_INTERVAL_HOURS * Hour}

EligUser == CHOOSE u \in Users : TRUE

InitElig ==
    /\ now \in EligNows
    /\ storeUp = TRUE
    /\ settings = [u \in Users |-> [is_enabled |-> TRUE, paused_until |-> NULL]]
    /\ \E kinds \in [1 .. MaxEligRows -> RowKinds] :
          /\ schedule = [i \in 1 .. MaxEligRows |->
                            EligScheduleRow(EligUser, i, kinds[i])]
          /\ logs = EligLogs(EligUser, kinds, 1)
    /\ history \in EligHistories(EligUser, now)
    /\ SweepsIdle
    /\ InjectionIdle
    /\ _get_today_initiation_count(EligUser) <= MAX_INITIATIONS_PER_DAY
    /\ CronStarted

Called(fn, user_id, value) ==
    [fn |-> fn, user_id |-> user_id, value |-> value, raised |-> FALSE]

(* await self._should_schedule_initiation(user_id) *)
EligCheck(user_id) ==
    /\ kpc = "idle"
    /\ get_connection
    /\ ret' = Called("_should_schedule_initiation", user_id,
                     _should_schedule_initiation(user_id))
    /\ UNCHANGED <<ivars, xvars>>
    /\ UNCHANGED <<now, storeUp, settings, schedule, logs, history, spc, batch,
                   pos, message, success, kpc, kusers, kpos, inflight>>

(* await self._is_in_silence_mode(user_id) *)
SilenceCheck(user_id) ==
    /\ kpc = "idle"
    /\ get_connection
    /\ ret' = Called("_is_in_silence_mode", user_id, _is_in_silence_mode(user_id))
    /\ UNCHANGED <<ivars, xvars>>
    /\ UNCHANGED <<now, storeUp, settings, schedule, logs, history, spc, batch,
                   pos, message, success, kpc, kusers, kpos, inflight>>

NextElig ==
    \/ \E u \in Users : EligCheck(u)
    \/ \E u \in Users : SilenceCheck(u)

SpecElig == InitElig /\ [][NextElig]_vars

---------------------------------------------------------------------------
(* The response correlator with the dispatch sweep: the first row was sent
   three hours ago (the user has answered it or not), the scheduler has just
   inserted the second one, due in three hours; the user writes now and then. *)

RespStart == StartTime + 6 * Hour

(* Steps of ninety seconds, of three hours and of twenty-one hours: a reply can
   come a minute and a half after a message, and exactly a day after one *)
RespSteps == {90, 3 * Hour, 21 * Hour}
RespClock == {RespStart + a * 90 + b * 3 * Hour + c * 21 * Hour :
                a \in {0, 1}, b \in {0, 1}, c \in {0, 1}}

InitResp ==
    /\ now = RespStart
    /\ storeUp = TRUE
    /\ settings = [u \in Users |-> [is_enabled |-> TRUE, paused_until |-> NULL]]
    /\ \E kind \in {"ignored", "answered"} :
          /\ schedule = <<DrawnScheduleRow(EligUser, RespStart - 3 * Hour, kind),
                          ScheduleRow(EligUser, RespStart + 3 * Hour)>>
          /\ logs = <<DrawnLogRow(EligUser, 1, RespStart - 3 * Hour, kind)>>
    /\ history = <<UserMessage(EligUser, "joy", RespStart - Day),
                   [user_id |-> EligUser, role |-> "assistant",
                    content |-> [row |-> 1, text |-> "answer"],
                    emotion_primary |-> "", bot_mode |-> "proactive",
                    created_at |-> RespStart - 3 * Hour]>>
    /\ SweepsIdle
    /\ InjectionIdle
    /\ CronStarted

TickResp ==
    /\ LoopFree
    /\ \E step \in RespSteps :
          /\ now + step \in RespClock
          /\ now' = now + step
    /\ UNCHANGED <<ivars, xvars>>
    /\ UNCHANGED <<storeUp, settings, schedule, logs, history, spc, batch, pos,
                   message, success, kpc, kusers, kpos, inflight, ret>>

NextResp ==
    \/ SenderStart
    \/ SenderGenerate
    \/ SenderSendReturn
    \/ SenderMark
    \/ SenderHandler
    \/ \E u \in Users : HandleMessageBegin(u)
    \/ HandleMessageEnd
    \/ StoreFails
    \/ StoreRecovers
    \/ TickResp

SpecResp == InitResp /\ [][NextResp]_vars


---------------------------------------------------------------------------
(* The injection system on its own: user messages whose contexts are built one
   after the other, /start, and the expiry of the Redis keys *)
NextInject ==
    \/ \E u \in Users : BuildContext(u)
    \/ ContextReturn
    \/ \E u \in Users : reset_user_counter(u)
    \/ \E u \in Users : CounterExpires(u)
    \/ \E k \in DOMAIN cache : CacheExpires(k)
    \/ \E u \in Users : MarkerExpires(u)

SpecInject == Init /\ [][NextInject]_vars

(* The composition on its own, for every budget INJECTION_MAX_TOKENS can be set
   to around the costs of the components *)
Budgets == {0, 14, 15, 34, 35, 49, 50, 64, 65, 69, 70, 100}

ComposeArgs ==
    {Frame("args", 0, mode, emotion, [len |-> 0, entropy |-> 0, volatility |-> 0],
           violation_type, authorized, ltm, {}, budget, FALSE, FALSE,
           NotCalled) :
        mode \in MODE_BOOSTERS \cup {"auto"},
        emotion \in {"joy", "anger"},
        violation_type \in CORE_TEMPLATES \cup {None},
        authorized \in BOOLEAN, ltm \in BOOLEAN, budget \in Budgets}

InitCompose ==
    /\ now = StartTime
    /\ storeUp = TRUE
    /\ settings = [u \in Users |-> [is_enabled |-> TRUE, paused_until |-> NULL]]
    /\ schedule = <<>>
    /\ logs = <<>>
    /\ history = InitialHistory
    /\ SweepsIdle
    /\ counter = [u \in Users |-> 0]
    /\ cache = <<>>
    /\ marker = [u \in Users |-> None]
    /\ fired = [u \in Users |-> 0]
    /\ call \in ComposeArgs
    /\ CronStarted

ComposeCall ==
    /\ call.fn = "args"
    /\ LET composed == Compose(call.mode, call.emotion, call.violation_type,
                               call.is_authorized, call.ltm, call.budget)
       IN call' = [call EXCEPT
                     !.fn = "Compose",
                     !.outcome = Outcome("composed", composed.text,
                                         composed.tokens, FALSE, FALSE, FALSE,
                                         FALSE)]
    /\ UNCHANGED <<counter, cache, marker, fired>>
    /\ UNCHANGED <<pvars, xvars>>

NextCompose == ComposeCall

SpecCompose == InitCompose /\ [][NextCompose]_vars

---------------------------------------------------------------------------
(* The scheduling sweep over two opted-in users of group A.  Each of them has
   written nothing, or once yesterday: at 09:00 local time, at 03:00 local time
   (outside the active hours), or at 09:00 in sadness. *)
SchedUsers == {2, 4}

SchedHistories(user_id) ==
    {<<>>,
     <<UserMessage(user_id, "joy", StartTime - Day + 2 * Hour)>>,
     <<UserMessage(user_id, "joy", StartTime - Day - 4 * Hour)>>,
     <<UserMessage(user_id, "sadness", StartTime - Day + 2 * Hour)>>}

InitSched ==
    /\ now = StartTime
    /\ storeUp = TRUE
    /\ settings = [u \in SchedUsers |->
                      [is_enabled |-> TRUE, paused_until |-> NULL]]
    /\ schedule = <<>>
    /\ logs = <<>>
    /\ history \in {h2 \o h4 : h2 \in SchedHistories(2), h4 \in SchedHistories(4)}
    /\ SweepsIdle
    /\ InjectionIdle
    /\ CronStarted

NextSched ==
    \/ SchedStart
    \/ SchedUser
    \/ SchedEnd
    \/ StoreFails
    \/ StoreRecovers
    \/ Tick

SpecSched == InitSched /\ [][NextSched]_vars
---------------------------------------------------------------------------
(* Initial conditions shared by the specifications of single functions *)

(* The store as the engine finds it: the users opted in, nothing scheduled *)
StoreFresh ==
    /\ now = StartTime
    /\ storeUp = TRUE
    /\ settings = [u \in Users |-> [is_enabled |-> TRUE, paused_until |-> NULL]]
    /\ schedule = <<>>
    /\ logs = <<>>
    /\ history = InitialHistory

(* Redis without any key of the injection system *)
RedisFresh ==
    /\ counter = [u \in Users |-> 0]
    /\ cache = <<>>
    /\ marker = [u \in Users |-> None]
    /\ fired = [u \in Users |-> 0]

---------------------------------------------------------------------------
(* calculate_style_volatility on its own, for histories of 0 to 8 records and
   every value the computation over the style vectors can give *)
VolatilityLengths == 0 .. 8
VolatilityValues == {0, 40, 41, 50, 100}

VolatilityArgs ==
    {Frame("args", 0, "auto", "joy",
           [len |-> n, entropy |-> e, volatility |-> v],
           None, FALSE, FALSE, {}, INJECTION_MAX_TOKENS, FALSE, FALSE, NotCalled) :
        n \in VolatilityLengths, e \in {0, 95}, v \in VolatilityValues}

InitVolatility ==
    /\ StoreFresh
    /\ SweepsIdle
    /\ RedisFresh
    /\ call \in VolatilityArgs
    /\ CronStarted

(* volatility = self.anchor_system.calculate_style_volatility(user_history) *)
VolatilityCall ==
    /\ call.fn = "args"
    /\ call' = [call EXCEPT !.fn = "calculate_style_volatility"]
    /\ ret' = [fn |-> "calculate_style_volatility", user_id |-> 0,
               value |-> calculate_style_volatility(call.history),
               raised |-> FALSE]
    /\ UNCHANGED <<counter, cache, marker, fired>>
    /\ UNCHANGED xvars
    /\ UNCHANGED <<now, storeUp, settings, schedule, logs, history, spc, batch,
                   pos, message, success, kpc, kusers, kpos, inflight>>

NextVolatility == VolatilityCall

SpecVolatility == InitVolatility /\ [][NextVolatility]_vars

---------------------------------------------------------------------------
(* _find_continuation_opportunities for one memory.  Qualities are floats in
   the code; here they are thousandths, which every product of importance/10,
   0.7 and 1.2 is a whole number of. *)

(* config.py *)
INITIATION_MIN_QUALITY_SCORE == 600

Min(a, b) == IF a < b THEN a ELSE b

(* Variant of the quality that penalises from the third day on *)
QualityAgedFromThree(memory) ==
    LET days_ago == (now - memory.created_at) \div Day
        quality == memory.importance_score * 100
        aged == IF days_ago >= 3 THEN (quality * 7) \div 10 ELSE quality
        boosted == IF memory.memory_type = "auto_saved"
                   THEN (aged * 12) \div 10 ELSE aged
    IN Min(1000, boosted)

(* days_ago = (datetime.now(timezone.utc) - memory['created_at']).days, the
   whole days of the age; quality = importance_score / 10.0, *= 0.7, *= 1.2,
   min(1.0, quality) *)
ContinuationQuality(memory) ==
    LET days_ago == (now - memory.created_at) \div Day
        quality == memory.importance_score * 100
        aged == IF days_ago > 3 THEN (quality * 7) \div 10 ELSE quality
        boosted == IF memory.memory_type = "auto_saved"
                   THEN (aged * 12) \div 10 ELSE aged
    IN Min(1000, boosted)

(* The candidates for the memories <<memory>>: the estimated qualities *)
_find_continuation_opportunities(memory) ==
    IF /\ memory.is_open_ended
       /\ ContinuationQuality(memory) >= INITIATION_MIN_QUALITY_SCORE
    THEN <<ContinuationQuality(memory)>>
    ELSE <<>>

(* The ages of the memories of the last 7 days the model explores *)
MemoryAges == {0, 3 * Day, 3 * Day + 12 * Hour, 4 * Day, 5 * Day,
               6 * Day + 23 * Hour}

(* long_term_memory rows: importance_score is 1 to 10 *)
Memories ==
    [importance_score : 1 .. 10,
     memory_type : {"user_saved", "auto_saved"},
     created_at : {StartTime - a : a \in MemoryAges},
     is_open_ended : BOOLEAN]

Mined(fn, memory, candidates) ==
    [fn |-> fn, user_id |-> 0, value |-> candidates, raised |-> FALSE,
     memory |-> memory]

InitQuality ==
    /\ now = StartTime
    /\ storeUp = TRUE
    /\ settings = [u \in Users |-> [is_enabled |-> TRUE, paused_until |-> NULL]]
    /\ schedule = <<>>
    /\ logs = <<>>
    /\ history = InitialHistory
    /\ spc = "idle" /\ batch = <<>> /\ pos = 1
    /\ message = NoMessage /\ success = FALSE
    /\ kpc = "idle" /\ kusers = <<>> /\ kpos = 1
    /\ inflight = NoUpdate
    /\ \E memory \in Memories : ret = Mined("args", memory, <<>>)
    /\ RedisFresh
    /\ call = NoFrame
    /\ CronStarted

(* continuation_candidates = self._find_continuation_opportunities(...) *)
QualityCall ==
    /\ ret.fn = "args"
    /\ ret' = Mined("_find_continuation_opportunities", ret.memory,
                    _find_continuation_opportunities(ret.memory))
    /\ UNCHANGED <<ivars, xvars>>
    /\ UNCHANGED <<now, storeUp, settings, schedule, logs, history, spc, batch,
                   pos, message, success, kpc, kusers, kpos, inflight>>

NextQuality == QualityCall

SpecQuality == InitQuality /\ [][NextQuality]_vars

---------------------------------------------------------------------------
(* The mutators of proactive_commands.py on their own: one of them is applied
   to a drawn state of the tables, then applied again with the same arguments *)

Mutators == {"enable_proactivity", "disable_proactivity",
             "set_proactivity_pause"}

(* The times a drawn schedule row is scheduled at, and the states it can be in:
   an overdue row was sent (and ignored), is still pending, or was cancelled *)
MutatorSlots == {StartTime - 4 * Hour, StartTime + Hour, StartTime + 5 * Hour}

MutatorKinds(at) ==
    IF at <= StartTime THEN {"pending", "cancelled", "ignored"}
    ELSE {"pending", "cancelled"}

MutatorRows == 2

MutatorSettings ==
    [is_enabled : BOOLEAN,
     paused_until : {NULL, StartTime - Hour, StartTime + 3 * Hour}]

(* set_proactivity_pause's pause_until; the other mutators have no argument *)
MutatorArgs(fn) ==
    IF fn = "set_proactivity_pause" THEN {StartTime + d : d \in PauseDurations}
    ELSE {NULL}

Applied(fn, user_id, arg, times) ==
    [fn |-> fn, user_id |-> user_id, value |-> arg, raised |-> FALSE,
     times |-> times]

RECURSIVE MutatorLogs(_, _, _, _)
MutatorLogs(user_id, ats, kinds, i) ==
    IF i > Len(kinds) THEN <<>>
    ELSE (IF kinds[i] \in SentKinds
          THEN <<DrawnLogRow(user_id, i, ats[i], kinds[i])>> ELSE <<>>)
         \o MutatorLogs(user_id, ats, kinds, i + 1)

InitMutators ==
    /\ now = StartTime
    /\ storeUp = TRUE
    /\ settings \in [Users -> MutatorSettings]
    /\ \E ats \in [1 .. MutatorRows -> MutatorSlots] :
       \E kinds \in [1 .. MutatorRows -> RowKinds] :
          /\ \A i \in 1 .. MutatorRows : kinds[i] \in MutatorKinds(ats[i])
          /\ \A i \in 1 .. MutatorRows - 1 : ats[i] <= ats[i + 1]
          /\ schedule = [i \in 1 .. MutatorRows |->
                            DrawnScheduleRow(EligUser, ats[i], kinds[i])]
          /\ logs = MutatorLogs(EligUser, ats, kinds, 1)
    /\ history = InitialHistory
    /\ spc = "idle" /\ batch = <<>> /\ pos = 1
    /\ message = NoMessage /\ success = FALSE
    /\ kpc = "idle" /\ kusers = <<>> /\ kpos = 1
    /\ inflight = NoUpdate
    /\ ret = Applied("none", 0, NULL, 0)
    /\ RedisFresh
    /\ call = NoFrame
    /\ CronStarted

(* One application of a mutator: the first, or the second of the same mutator
   with the same arguments *)
Mutate(fn, user_id, arg) ==
    /\ get_connection
    /\ \/ ret.fn = "none" /\ ret' = Applied(fn, user_id, arg, 1)
       \/ ret = Applied(fn, user_id, arg, 1) /\ ret' = Applied(fn, user_id, arg, 2)
    /\ CASE fn = "enable_proactivity" ->
                /\ settings' = enable_proactivity(user_id)
                /\ schedule' = schedule
         [] fn = "disable_proactivity" -> disable_proactivity(user_id)
         [] OTHER -> set_proactivity_pause(user_id, arg)
    /\ UNCHANGED <<ivars, xvars>>
    /\ UNCHANGED <<now, storeUp, logs, history, spc, batch, pos, message,
                   success, kpc, kusers, kpos, inflight>>

NextMutators ==
    \E fn \in Mutators : \E u \in Users : \E arg \in MutatorArgs(fn) :
        Mutate(fn, u, arg)

SpecMutators == InitMutators /\ [][NextMutators]_vars

---------------------------------------------------------------------------
(* background_cache_recalibration on its own: it runs on a drawn cache, then
   runs again *)

Max(a, b) == IF a > b THEN a ELSE b

(* Variant of the sample size: every key *)
InvalidateEverything(n, percentage) == n

(* num_to_invalidate = max(1, int(len(all_keys) * percentage)), percentage in
   hundredths *)
num_to_invalidate(n, percentage) == Max(1, (n * percentage) \div 100)

(* The cache keys of the drawn caches, and the values of `percentage` *)
RecalibrationKeys ==
    {_generate_cache_key(EligUser, mode, emotion, violation) :
        mode \in Modes, emotion \in Emotions, violation \in ViolationTypes}

Percentages == {5, 50, 100}

(* What can fail in a run: nothing, redis.keys, or a redis.delete of the loop *)
RecalibrationFailures == {"none", "keys", "delete"}

Recalibrated(fn, percentage, deleted, times, raised) ==
    [fn |-> fn, user_id |-> 0, value |-> deleted, raised |-> raised,
     percentage |-> percentage, times |-> times]

InitRecalibration ==
    /\ StoreFresh
    /\ spc = "idle" /\ batch = <<>> /\ pos = 1
    /\ message = NoMessage /\ success = FALSE
    /\ kpc = "idle" /\ kusers = <<>> /\ kpos = 1
    /\ inflight = NoUpdate
    /\ \E percentage \in Percentages :
          ret = Recalibrated("none", percentage, 0, 0, FALSE)
    /\ counter = [u \in Users |-> 0]
    /\ \E K \in SUBSET RecalibrationKeys : cache = [k \in K |-> <<"base">>]
    /\ marker = [u \in Users |-> None]
    /\ fired = [u \in Users |-> 0]
    /\ call = NoFrame
    /\ CronStarted

(* One run.  random.sample picks the keys; the deletes happen one by one, and a
   delete that raises ends the run with the earlier ones done. *)
background_cache_recalibration(percentage, failure) ==
    LET all_keys == DOMAIN cache
        n == Cardinality(all_keys)
    IN IF failure = "keys" \/ all_keys = {}
       THEN /\ cache' = cache
            /\ ret' = Recalibrated("background_cache_recalibration", percentage,
                                   0, ret.times + 1, failure = "keys")
       ELSE \E keys_to_invalidate \in SUBSET all_keys :
               /\ Cardinality(keys_to_invalidate)
                    = num_to_invalidate(n, percentage)
               /\ \E done \in SUBSET keys_to_invalidate :
                     /\ IF failure = "delete" THEN done # keys_to_invalidate
                        ELSE done = keys_to_invalidate
                     /\ cache' = [k \in all_keys \ done |-> cache[k]]
                     /\ ret' = Recalibrated("background_cache_recalibration",
                                            percentage, Cardinality(done),
                                            ret.times + 1, failure = "delete")

Recalibrate ==
    /\ ret.times < 2
    /\ \E failure \in RecalibrationFailures :
          background_cache_recalibration(ret.percentage, failure)
    /\ UNCHANGED <<counter, marker, fired, call>>
    /\ UNCHANGED xvars
    /\ UNCHANGED <<now, storeUp, settings, schedule, logs, history, spc, batch,
                   pos, message, success, kpc, kusers, kpos, inflight>>

NextRecalibration == Recalibrate

SpecRecalibration == InitRecalibration /\ [][NextRecalibration]_vars

---------------------------------------------------------------------------
(* Properties *)

Terminal == {"sent", "cancelled", "failed"}

(* The log entries of schedule row i in the log table L *)
LogsOf(L, i) == {k \in DOMAIN L : L[k].initiation_id = i}

(* The proactive history entries of the message generated for schedule row i *)
ProactiveOf(H, i) ==
    {k \in DOMAIN H :
        /\ H[k].role = "assistant"
        /\ H[k].bot_mode = "proactive"
        /\ H[k].content.row = i}

(* C1: a schedule row's status only moves from pending to sent, cancelled or
   failed; once it is sent, cancelled or failed it never changes again, whatever
   the interleaving of the dispatch sweep, the cleanup sweep and the opt-out and
   pause commands. *)
C1_StatusOnlyLeavesPending ==
    [][\A i \in DOMAIN schedule :
          /\ i \in DOMAIN schedule'
          /\ (schedule[i].status = "pending"
                => schedule'[i].status \in {"pending"} \cup Terminal)
          /\ (schedule[i].status \in Terminal
                => schedule'[i].status = schedule[i].status)]_vars

(* No row has two log entries or two proactive history entries *)
C2_NoDuplicate ==
    \A i \in DOMAIN schedule :
        /\ Cardinality(LogsOf(logs, i)) <= 1
        /\ Cardinality(ProactiveOf(history, i)) <= 1

(* The dispatch sweep records a delivered message while the store is reachable:
   the row was due, it becomes sent, no other row changes, and exactly one log
   entry and one assistant history entry of mode proactive are added for it *)
C2_DispatchStep ==
    (spc = "mark" /\ spc' # "mark" /\ success /\ storeUp /\ storeUp')
    => LET i == batch[pos] IN
        /\ schedule[i].scheduled_at <= now
        /\ schedule'[i].status = "sent"
        /\ \A j \in DOMAIN schedule \ {i} : schedule'[j] = schedule[j]
        /\ Len(logs') = Len(logs) + 1
        /\ LogsOf(logs', i) = {Len(logs')}
        /\ Len(history') = Len(history) + 1
        /\ ProactiveOf(history', i) = {Len(history')}
        /\ history'[Len(history')].user_id = schedule[i].user_id

(* C2: a candidate the scheduler inserted and a dispatch sweep run after its
   scheduled_at yield exactly one sent row, exactly one log entry for the row and
   exactly one new history entry of role assistant and mode proactive: never
   none (the store being reachable), never a duplicate. *)
C2_ExactlyOnce == []C2_NoDuplicate /\ [][C2_DispatchStep]_vars

(* C2 witness: a scheduled row was dispatched and the sweep is over; the row is
   sent and has its one log entry and its one history entry *)
C2_Witness ==
    /\ spc = "idle"
    /\ \E i \in DOMAIN schedule :
          /\ schedule[i].status = "sent"
          /\ schedule[i].sent_at >= schedule[i].scheduled_at
          /\ Cardinality(LogsOf(logs, i)) = 1
          /\ Cardinality(ProactiveOf(history, i)) = 1

(* C3: within one dispatch sweep a failure while processing one due row (while
   generating, sending, or recording the outcome) never prevents the later rows
   of the batch from being processed: when the sweep is over, no row of its
   batch is left unprocessed. *)
C3_EveryRowProcessed ==
    spc = "idle" => \A k \in DOMAIN batch : k <= pos

(* C4: when the language-model call of a row's generation times out or fails,
   no message is delivered to the user for the row (the row ends failed): the
   sweep never holds a successfully sent message whose text is the model's
   error. *)
C4_NoDeliveryOnLlmFailure ==
    ~ (spc = "mark" /\ success /\ message.text \in LlmErrors)

(* A failed send is recorded, and a failed row stays failed, is not selected by
   a sweep that starts, and is not sent *)
C5_Step ==
    /\ (spc = "mark" /\ spc' # "mark" /\ ~ success /\ storeUp)
        => /\ schedule'[batch[pos]].status = "failed"
           /\ schedule'[batch[pos]].error_message = "Failed to send via Telegram"
    /\ \A i \in DOMAIN schedule :
          schedule[i].status = "failed"
          => /\ schedule'[i].status = "failed"
             /\ schedule'[i].error_message = schedule[i].error_message
             /\ (spc = "idle" /\ spc' = "gen"
                    => \A k \in DOMAIN batch' : batch'[k] # i)
             /\ (spc = "send" /\ spc' = "mark" => batch[pos] # i)

(* C5: when sending the message of a due row fails, the row's status becomes
   failed with the error recorded (the store being reachable), and no later
   dispatch sweep selects or sends the row again. *)
C5_SendFailureIsFinal == [][C5_Step]_vars

(* C5 witness: a row failed on sending, with the error recorded, and a later
   sweep has sent another row *)
C5_Witness ==
    \E i, j \in DOMAIN schedule :
        /\ schedule[i].status = "failed"
        /\ schedule[i].error_message = "Failed to send via Telegram"
        /\ schedule[j].status = "sent"
        /\ schedule[j].sent_at > schedule[i].scheduled_at
        /\ spc = "idle"

(* C6: the scheduler inserts a pending row for a user only if every
   pending-or-sent row of the user is scheduled at least
   MIN_INITIATION_INTERVAL_HOURS before now; hence no two pending-or-sent rows
   of one user are ever closer together than that interval. *)
C6_RowsKeepTheInterval ==
    \A i, j \in DOMAIN schedule :
        (/\ i # j
         /\ schedule[i].user_id = schedule[j].user_id
         /\ schedule[i].status \in {"pending", "sent"}
         /\ schedule[j].status \in {"pending", "sent"}
         /\ schedule[i].scheduled_at <= schedule[j].scheduled_at)
        => schedule[j].scheduled_at - schedule[i].scheduled_at
              >= MIN_INITIATION_INTERVAL_HOURS * Hour

(* The user's pending-or-sent rows scheduled in the current UTC day *)
C7_TodayCount(u) ==
    Cardinality({i \in DOMAIN schedule :
        /\ schedule[i].user_id = u
        /\ schedule[i].status \in {"pending", "sent"}
        /\ schedule[i].scheduled_at \div Day = now \div Day})

(* C7: the eligibility check is false when the user's count of today's
   initiations equals MAX_INITIATIONS_PER_DAY, and true when it equals
   MAX_INITIATIONS_PER_DAY - 1 and the other conditions are satisfied. *)
C7_DailyLimit ==
    ret.fn = "_should_schedule_initiation"
    => LET u == ret.user_id IN
        /\ (C7_TodayCount(u) = MAX_INITIATIONS_PER_DAY => ret.value = FALSE)
        /\ (/\ C7_TodayCount(u) = MAX_INITIATIONS_PER_DAY - 1
            /\ ~ InactiveTooLong(u)
            /\ ~ _is_in_silence_mode(u)
            /\ ~ TooSoon(u)
            => ret.value = TRUE)

(* C7 witness: the check has returned true for a user one initiation below the
   daily limit *)
C7_Witness ==
    /\ ret.fn = "_should_schedule_initiation"
    /\ C7_TodayCount(ret.user_id) = MAX_INITIATIONS_PER_DAY - 1
    /\ ret.value = TRUE

(* The user's proactive messages of the last seven days that are unanswered *)
C8_Unanswered(u) ==
    Cardinality({k \in DOMAIN logs :
        /\ ~ logs[k].deleted
        /\ logs[k].user_id = u
        /\ ~ logs[k].user_responded
        /\ now - logs[k].created_at < 7 * Day})

(* C8: with exactly SILENCE_AFTER_IGNORED_COUNT - 1 unanswered proactive
   messages in the last seven days, and neither the short-answers nor the stress
   condition met, _is_in_silence_mode is false; with exactly
   SILENCE_AFTER_IGNORED_COUNT the user is silent and not eligible. *)
C8_SilenceThreshold ==
    /\ ret.fn = "_is_in_silence_mode"
       => LET u == ret.user_id IN
           /\ (/\ C8_Unanswered(u) = SILENCE_AFTER_IGNORED_COUNT - 1
               /\ ~ ShortAnswersCondition(u)
               /\ ~ StressCondition(u)
               => ret.value = FALSE)
           /\ (C8_Unanswered(u) = SILENCE_AFTER_IGNORED_COUNT
               => ret.value = TRUE)
    /\ ret.fn = "_should_schedule_initiation"
       => (C8_Unanswered(ret.user_id) = SILENCE_AFTER_IGNORED_COUNT
           => ret.value = FALSE)

(* C8 witness: the silence check has returned true for a user with exactly the
   threshold number of unanswered messages, whose answers are not short and who
   shows no stress *)
C8_Witness ==
    /\ ret.fn = "_is_in_silence_mode"
    /\ C8_Unanswered(ret.user_id) = SILENCE_AFTER_IGNORED_COUNT
    /\ ~ ShortAnswersCondition(ret.user_id)
    /\ ~ StressCondition(ret.user_id)
    /\ ret.value = TRUE

(* The user's unresponded log entries of the last 24 hours *)
C9_Candidates(u) ==
    {k \in DOMAIN logs :
        /\ ~ logs[k].deleted
        /\ logs[k].user_id = u
        /\ ~ logs[k].user_responded
        /\ now - logs[k].created_at < 24 * Hour}

(* handle_message has called process_user_response and no store call failed *)
HookRan ==
    /\ inflight # NoUpdate
    /\ inflight' = NoUpdate
    /\ ret'.fn = "process_user_response"
    /\ ~ ret'.raised

C9_Step ==
    HookRan
    => LET u == inflight.user_id
           S == C9_Candidates(u)
       IN IF S = {}
          THEN ret'.value = FALSE /\ logs' = logs /\ schedule' = schedule
          ELSE \E k \in S :
                /\ \A j \in S : logs[j].created_at <= logs[k].created_at
                /\ logs'[k].user_responded
                /\ logs'[k].response_time_minutes * Minute
                      <= now - logs[k].created_at
                /\ now - logs[k].created_at
                      < (logs'[k].response_time_minutes + 1) * Minute
                /\ \A j \in DOMAIN logs \ {k} : logs'[j] = logs[j]
                /\ schedule'[logs[k].initiation_id].user_response_received
                /\ ret'.value = TRUE

(* C9: process_user_response correlates the message with the user's most recent
   unresponded log entry of the last 24 hours: it marks that entry responded,
   stores the response time in whole minutes, sets its schedule row's
   response-received flag and returns true; with no such entry it returns false
   and changes nothing. *)
C9_Correlates == [][C9_Step]_vars

(* C9 witness: a reply that came ninety seconds after the newest of two
   unresponded messages was correlated with it, as one whole minute *)
C9_Witness ==
    /\ ret = Returned(EligUser, TRUE, FALSE)
    /\ \E k, j \in DOMAIN logs :
          /\ logs[k].user_responded
          /\ logs[k].response_time_minutes = 1
          /\ logs[k].response_time_minutes # NULL
          /\ schedule[logs[k].initiation_id].user_response_received
          /\ ~ logs[j].user_responded
          /\ logs[j].created_at < logs[k].created_at
          /\ now - logs[j].created_at < 24 * Hour
          /\ now - logs[k].created_at = 90

C10_Step ==
    /\ Len(logs') >= Len(logs)
    /\ Len(logs') > Len(logs)
        => /\ Len(logs') = Len(logs) + 1
           /\ spc = "mark" /\ success
           /\ LogsOf(logs, batch[pos]) = {}
           /\ logs'[Len(logs')].initiation_id = batch[pos]
           /\ logs'[Len(logs')].created_at = now
           /\ ~ logs'[Len(logs')].user_responded
           /\ logs'[Len(logs')].response_time_minutes = NULL
    /\ \A k \in DOMAIN logs :
          /\ logs[k].user_responded => logs'[k] = logs[k]
          /\ logs'[k] # logs[k] => HookRan /\ ret'.value = TRUE
    /\ (HookRan /\ \A k \in DOMAIN logs :
                      logs[k].user_id = inflight.user_id => logs[k].user_responded)
        => ret'.value = FALSE /\ logs' = logs

(* C10: the log entry of a proactive message is created once, when the message
   is sent; its response fields are written at most once, by the first reply
   correlated with it; a later reply that finds no other unresponded entry
   returns false. *)
C10_WrittenOnce == [][C10_Step]_vars

(* C10 witness: the first reply was correlated with the message the sweep sent,
   every entry is responded, and the second reply has returned false *)
C10_Witness ==
    /\ ret = Returned(EligUser, FALSE, FALSE)
    /\ NumUserMessages = 2
    /\ inflight = NoUpdate
    /\ \A k \in DOMAIN logs : logs[k].user_responded
    /\ \E k \in DOMAIN logs :
          /\ logs[k].initiation_id = 2
          /\ logs[k].response_time_minutes # NULL
          /\ logs[k].created_at >= RespStart

---------------------------------------------------------------------------
(* The dispatch under observation: the engine of SpecDispatch, started with a
   record of the messages that reach the users. *)

InitDelivery ==
    /\ now = StartTime
    /\ storeUp = TRUE
    /\ settings = [u \in Users |-> [is_enabled |-> TRUE, paused_until |-> NULL]]
    /\ schedule = <<>>
    /\ logs = <<>>
    /\ history = InitialHistory
    /\ SweepsIdle
    /\ InjectionIdle
    /\ tasks = [loop \in Loops |-> "running"]
    /\ delivered = Deliveries(TRUE, {}, {})
    /\ racers = NoRacers

SpecDelivery == InitDelivery /\ [][NextDispatch]_vars

---------------------------------------------------------------------------
(* The three loops on their own: no clock, no commands, no user messages.  The
   tables start with up to MaxRows due pending rows, the oldest ones old enough
   for the cleanup sweep, and the store fails and recovers at any moment. *)

DueRows(n) ==
    [i \in 1 .. n |-> ScheduleRow(SetToSeq(Users)[1], StartTime - i * 36 * Hour)]

InitLoops ==
    /\ now = StartTime
    /\ storeUp = TRUE
    /\ settings = [u \in Users |-> [is_enabled |-> TRUE, paused_until |-> NULL]]
    /\ \E n \in 0 .. MaxRows : schedule = DueRows(n)
    /\ logs = <<>>
    /\ history = InitialHistory
    /\ SweepsIdle
    /\ InjectionIdle
    /\ CronStarted

NextLoops ==
    \/ SenderStart
    \/ SenderGenerate
    \/ SenderSendReturn
    \/ SenderMark
    \/ SenderHandler
    \/ SchedStart
    \/ SchedUser
    \/ SchedEnd
    \/ CleanupSweep
    \/ StoreFails
    \/ StoreRecovers

(* The event loop resumes a coroutine whose awaited call has completed: a sweep
   that is under way takes its next step.  The ready queue of the event loop is
   first-in first-out, so the dispatch sweep waiting for bot.send_message is
   resumed although scheduling sweeps, which never yield, come and go in between.
   Nothing is assumed of the store. *)
LoopsFairness ==
    /\ WF_vars(SenderGenerate)
    /\ SF_vars(SenderSendReturn)
    /\ WF_vars(SenderMark)
    /\ WF_vars(SenderHandler)
    /\ WF_vars(SchedUser)
    /\ WF_vars(SchedEnd)

SpecLoops == InitLoops /\ [][NextLoops]_vars /\ LoopsFairness

---------------------------------------------------------------------------
(* Shutdown and restart (telegram_bot.py main, cron_jobs.py).

   stop_proactive_cron runs in the finally clause after run_polling has returned:
   no coroutine is running, every task is suspended at an await.  task.cancel()
   raises CancelledError at that await; it is a BaseException, so no
   "except Exception" of the sweeps catches it and no row is written.  The frames
   of the cancelled sweeps are never resumed, so they stand as they were. *)

Stopped == \A loop \in Loops : tasks[loop] = "cancelled"

(* Variant: the cancellation is handled by the sweep's except clause like any
   exception of the row in hand *)
CancelMarksFailed ==
    IF spc = "send" THEN _mark_initiation_failed(batch[pos], "cancelled")
    ELSE schedule

(* The schedule table after the cancellation went through the sweeps *)
CancelledSweep == schedule

stop_proactive_cron ==
    /\ LoopFree
    /\ \A loop \in Loops : Running(loop)
    /\ tasks' = [loop \in Loops |-> "cancelled"]
    /\ schedule' = CancelledSweep
    /\ UNCHANGED ivars
    /\ UNCHANGED <<delivered, racers>>
    /\ UNCHANGED <<now, storeUp, settings, logs, history, spc, batch, pos,
                   message, success, kpc, kusers, kpos, inflight, ret>>

(* The next start of the process: post_init creates the engine and the tasks *)
start_proactive_cron ==
    /\ Stopped
    /\ tasks' = [loop \in Loops |-> "running"]
    /\ spc' = "idle" /\ batch' = <<>> /\ pos' = 1
    /\ message' = NoMessage /\ success' = FALSE
    /\ kpc' = "idle" /\ kusers' = <<>> /\ kpos' = 1
    /\ inflight' = NoUpdate /\ ret' = NoCall
    /\ UNCHANGED ivars
    /\ UNCHANGED <<delivered, racers>>
    /\ UNCHANGED <<now, storeUp, settings, schedule, logs, history>>

(* Up to MaxRows pending rows that came due in the last hours, and the log of an
   initiation of five weeks ago for the cleanup sweep *)
FreshDueRows(n) ==
    [i \in 1 .. n |-> ScheduleRow(SetToSeq(Users)[1], StartTime - i * Hour)]

OldLog ==
    [LogRow(SetToSeq(Users)[1], 0, "text") EXCEPT !.created_at = StartTime - 35 * Day]

InitStop ==
    /\ now = StartTime
    /\ storeUp = TRUE
    /\ settings = [u \in Users |-> [is_enabled |-> TRUE, paused_until |-> NULL]]
    /\ \E n \in 1 .. MaxRows : schedule = FreshDueRows(n)
    /\ logs = <<OldLog>>
    /\ history = InitialHistory
    /\ SweepsIdle
    /\ InjectionIdle
    /\ CronStarted

NextStop ==
    \/ SenderStart
    \/ SenderGenerate
    \/ SenderSendReturn
    \/ SenderMark
    \/ SenderHandler
    \/ SchedStart
    \/ SchedUser
    \/ SchedEnd
    \/ CleanupSweep
    \/ StoreFails
    \/ StoreRecovers
    \/ stop_proactive_cron
    \/ start_proactive_cron

SpecStop == InitStop /\ [][NextStop]_vars

---------------------------------------------------------------------------
(* Two scheduling sweeps on the same tables (two callers of
   check_and_schedule_initiations, for instance two instances of the bot on one
   database), both handling the same user.  Each reads, decides and inserts in
   separate statements with no lock and no transaction around them, so the
   statements of the two sweeps interleave freely.

   The user was active the evening before at 20:00 local time; it is 13:00 UTC;
   the tables hold up to MAX_INITIATIONS_PER_DAY answered initiations of today,
   three hours apart, the last one three or two hours ago. *)

Racers == {"first", "second"}

RaceNow == EligDay + 13 * Hour

RaceOffsets == {MIN_INITIATION_INTERVAL_HOURS * Hour, 2 * Hour}

RaceSlot(i, k, offset) ==
    RaceNow - offset - (k - i) * MIN_INITIATION_INTERVAL_HOURS * Hour

RaceRows(k, offset) ==
    [i \in 1 .. k |-> DrawnScheduleRow(EligUser, RaceSlot(i, k, offset), "answered")]

RaceLogs(k, offset) ==
    [i \in 1 .. k |-> DrawnLogRow(EligUser, i, RaceSlot(i, k, offset), "answered")]

Sweeps(base, sweep) == [base |-> base, sweep |-> sweep]

InitRace ==
    /\ now = RaceNow
    /\ storeUp = TRUE
    /\ settings = [u \in Users |-> [is_enabled |-> TRUE, paused_until |-> NULL]]
    /\ \E k \in 0 .. MAX_INITIATIONS_PER_DAY, offset \in RaceOffsets :
          /\ schedule = RaceRows(k, offset)
          /\ logs = RaceLogs(k, offset)
          /\ racers = Sweeps(k, [p \in Racers |-> "count"])
    /\ history = <<UserMessage(EligUser, "joy", EligDay - 5 * Hour)>>
    /\ SweepsIdle
    /\ InjectionIdle
    /\ tasks = [loop \in Loops |-> "running"]
    /\ delivered = Deliveries(FALSE, {}, {})

At(p, pc) == Sweeps(racers.base, [racers.sweep EXCEPT ![p] = pc])

(* today_count = self._get_today_initiation_count(user_id) and its test *)
RaceCount(p) ==
    /\ racers.sweep[p] = "count"
    /\ racers' = At(p, IF DailyLimitReached(EligUser) THEN "done" ELSE "interval")
    /\ UNCHANGED ivars
    /\ UNCHANGED <<tasks, delivered>>
    /\ UNCHANGED pvars

(* the activity, silence and minimum-interval reads of
   _should_schedule_initiation, then the mining of the opportunities *)
RaceInterval(p) ==
    /\ racers.sweep[p] = "interval"
    /\ IF \/ InactiveTooLong(EligUser)
          \/ _is_in_silence_mode(EligUser)
          \/ TooSoon(EligUser)
       THEN racers' = At(p, "done")
       ELSE \E memories \in MemorySamples :
            \E found \in _analyze_initiation_opportunities(EligUser, memories) :
               racers' = At(p, IF found THEN "insert" ELSE "done")
    /\ UNCHANGED ivars
    /\ UNCHANGED <<tasks, delivered>>
    /\ UNCHANGED pvars

(* optimal_time = await self._calculate_optimal_time(user_id);
   self._schedule_initiation(user_id, best_candidate, optimal_time) *)
RaceInsert(p) ==
    /\ racers.sweep[p] = "insert"
    /\ IF HourChoices(EligUser) = {}
       THEN schedule' = schedule
       ELSE \E hour \in HourChoices(EligUser),
               minute \in SampleMinutes,
               deviation \in SampleDeviations :
               schedule' = _schedule_initiation(EligUser,
                   _calculate_optimal_time(EligUser, hour, minute, deviation))
    /\ racers' = At(p, "done")
    /\ UNCHANGED ivars
    /\ UNCHANGED <<tasks, delivered>>
    /\ UNCHANGED <<now, storeUp, settings, logs, history, spc, batch, pos,
                   message, success, kpc, kusers, kpos, inflight, ret>>

NextRace ==
    \/ \E p \in Racers : RaceCount(p)
    \/ \E p \in Racers : RaceInterval(p)
    \/ \E p \in Racers : RaceInsert(p)

SpecRace == InitRace /\ [][NextRace]_vars

---------------------------------------------------------------------------
(* A day that is nearly full: it is 13:00 UTC, the user has up to three answered
   initiations of today, three hours apart, the last one four hours ago, and a
   pending row that came due an hour ago.  The engine runs from there with the
   clock standing: sweeps, commands and store failures. *)

DayRows(k) ==
    RaceRows(k, 4 * Hour) \o <<ScheduleRow(EligUser, RaceNow - Hour)>>

InitDay ==
    /\ now = RaceNow
    /\ storeUp = TRUE
    /\ settings = [u \in Users |-> [is_enabled |-> TRUE, paused_until |-> NULL]]
    /\ \E k \in 0 .. MAX_INITIATIONS_PER_DAY - 1 :
          /\ schedule = DayRows(k)
          /\ logs = RaceLogs(k, 4 * Hour)
          /\ racers = Sweeps(k + 1, <<>>)
    /\ history = <<UserMessage(EligUser, "joy", EligDay - 5 * Hour)>>
    /\ SweepsIdle
    /\ InjectionIdle
    /\ tasks = [loop \in Loops |-> "running"]
    /\ delivered = Deliveries(FALSE, {}, {})

NextDay ==
    \/ SenderStart
    \/ SenderGenerate
    \/ SenderSendReturn
    \/ SenderMark
    \/ SenderHandler
    \/ SchedStart
    \/ SchedUser
    \/ SchedEnd
    \/ \E u \in Users : WritemeCommand(u)
    \/ \E u \in Users : DontwriteCommand(u)
    \/ \E u \in Users : WritemePauseCommand(u)
    \/ CleanupSweep
    \/ StoreFails
    \/ StoreRecovers

SpecDay == InitDay /\ [][NextDay]_vars

---------------------------------------------------------------------------
(* The fate of the pending rows: up to MaxRows pending rows, one coming due in an
   hour and the others overdue, the dispatch and cleanup loops, the clock and a
   store that fails and recovers.

   The event loop resumes the sweeps, the sleeps of the loops end and time
   passes.  The store is outside the program: the outage is assumed to end
   (while the store is unreachable, or fails at every commit, nothing can be
   written at all). *)

PendingRows(n) ==
    [i \in 1 .. n |-> ScheduleRow(SetToSeq(Users)[1], StartTime + (3 - 2 * i) * Hour)]

InitPending ==
    /\ now = StartTime
    /\ storeUp = TRUE
    /\ settings = [u \in Users |-> [is_enabled |-> TRUE, paused_until |-> NULL]]
    /\ \E n \in 1 .. MaxRows : schedule = PendingRows(n)
    /\ logs = <<>>
    /\ history = InitialHistory
    /\ SweepsIdle
    /\ InjectionIdle
    /\ CronStarted

NextPending ==
    \/ SenderStart
    \/ SenderGenerate
    \/ SenderSendReturn
    \/ SenderMark
    \/ SenderHandler
    \/ CleanupSweep
    \/ StoreFails
    \/ StoreRecovers
    \/ Tick

PendingFairness ==
    /\ WF_vars(SenderStart)
    /\ WF_vars(SenderGenerate)
    /\ WF_vars(SenderSendReturn)
    /\ WF_vars(SenderMark)
    /\ WF_vars(SenderHandler)
    /\ WF_vars(CleanupSweep)
    /\ WF_vars(Tick)
    /\ <>[]storeUp

SpecPending == InitPending /\ [][NextPending]_vars /\ PendingFairness


---------------------------------------------------------------------------
(* The scheduling sweep over one opted-in user who wrote up to TrajectoryTurns
   messages yesterday morning: the older ones in one emotion (or untagged),
   the newer ones in another. *)
TrajectoryTurns == 11

TrajectoryEmotions == {"joy", "sadness", ""}

TrajectoryHistory(n, m, older, newer) ==
    [i \in 1 .. n + m |->
        UserMessage(EligUser, IF i <= n THEN older ELSE newer,
                    StartTime - Day + 2 * Hour + i * Minute)]

InitTrajectory ==
    /\ now = StartTime
    /\ storeUp = TRUE
    /\ settings = [u \in {EligUser} |->
                      [is_enabled |-> TRUE, paused_until |-> NULL]]
    /\ schedule = <<>>
    /\ logs = <<>>
    /\ \E n \in 0 .. TrajectoryTurns : \E m \in 0 .. TrajectoryTurns - n :
          \E older \in TrajectoryEmotions : \E newer \in TrajectoryEmotions :
             history = TrajectoryHistory(n, m, older, newer)
    /\ SweepsIdle
    /\ InjectionIdle
    /\ CronStarted

NextTrajectory ==
    \/ SchedStart
    \/ SchedUser
    \/ SchedEnd
    \/ StoreFails
    \/ StoreRecovers
    \/ Tick

SpecTrajectory == InitTrajectory /\ [][NextTrajectory]_vars

---------------------------------------------------------------------------
(* The injection system with two users whose ids fall into the same cache
   bucket (user_id % 100).  Each dialogue has had all but one of the injections
   the model follows; none of their increments reached Redis, and the cache
   entries and markers they wrote have expired. *)
BucketUsers == {2, 102}

InitBucket ==
    /\ now = StartTime
    /\ storeUp = TRUE
    /\ settings = [u \in Users |-> [is_enabled |-> TRUE, paused_until |-> NULL]]
    /\ schedule = <<>>
    /\ logs = <<>>
    /\ history = InitialHistory
    /\ SweepsIdle
    /\ counter = [u \in BucketUsers |-> 0]
    /\ cache = <<>>
    /\ marker = [u \in BucketUsers |-> None]
    /\ fired = [u \in BucketUsers |-> MaxFired - 1]
    /\ call = NoFrame
    /\ CronStarted

NextBucket ==
    \/ \E u \in BucketUsers : BuildContext(u)
    \/ ContextReturn
    \/ \E k \in DOMAIN cache : CacheExpires(k)

SpecBucket == InitBucket /\ [][NextBucket]_vars

---------------------------------------------------------------------------
(* Properties of the injection system *)

BuildFn == "build_enhanced_context_with_ltm_smart"

(* A step that builds the context of one user message *)
Builds == call = NoFrame /\ call'.fn = BuildFn

(* A step that builds a context and calls generate_injection *)
Generates == Builds /\ call'.outcome.path # "skipped"

(* C11: between two resets of a user's counter, the number of injections
   generated and added to the user's model context never exceeds
   max_injections_per_dialogue. *)
C11_QuotaBoundsInjections ==
    \A u \in Users : fired[u] <= MAX_INJECTIONS_PER_DIALOGUE

(* C12: should_inject returns true exactly when the user's counter is below
   max_injections_per_dialogue and the entropy is at least entropy_threshold
   (the counter being readable); with the counter at the maximum it returns
   false whatever the entropy. *)
C12_ShouldInject ==
    [][(Builds /\ call'.asked /\ "count_get" \notin call'.failed)
        => call'.should =
             (/\ counter[call'.user_id] < MAX_INJECTIONS_PER_DIALOGUE
              /\ calculate_dialogue_entropy(call'.history)
                    >= INJECTION_ENTROPY_THRESHOLD)]_vars

(* C12 witness: with the counter at the maximum and entropy 0.95, should_inject
   has returned false and no injection was generated *)
C12_Witness ==
    /\ call.fn = BuildFn
    /\ call.asked /\ ~ call.should
    /\ "count_get" \notin call.failed
    /\ calculate_dialogue_entropy(call.history) = 95
    /\ counter[call.user_id] = MAX_INJECTIONS_PER_DIALOGUE
    /\ call.outcome.path = "skipped"

(* C13: a call of generate_injection that composes an injection increments the
   user's counter by exactly one (the increment reaching Redis), and a call
   that returns the cached text leaves the counter unchanged. *)
C13_CounterIncrement ==
    [][Generates
        => LET u == call'.user_id IN
           /\ \A v \in Users \ {u} : counter'[v] = counter[v]
           /\ (call'.outcome.path = "composed" /\ "incr" \notin call'.failed
                 => counter'[u] = counter[u] + 1)
           /\ (call'.outcome.path # "composed" => counter'[u] = counter[u])]_vars

(* C13 witness: two injections were composed for the user and the counter is
   two *)
C13_Witness ==
    /\ call.fn = BuildFn
    /\ call.outcome.path = "composed"
    /\ "incr" \notin call.failed
    /\ counter[call.user_id] = 2
    /\ fired[call.user_id] = 2

(* The invalidation triggers of a call, from the state it starts in *)
C14_Trigger(u, f) ==
    \/ (marker[u] # None /\ marker[u] # f.emotion)
    \/ calculate_style_volatility(f.history) > 40
    \/ f.violation_type # None
    \/ (f.history.len > 3 /\ calculate_dialogue_entropy(f.history) > 80)

(* C14: generate_injection returns the cached text only if the user is
   unauthorized and no invalidation trigger fired; when the user is authorized
   or a trigger fired it composes the injection, a cached entry existing or
   not. *)
C14_CacheUse ==
    [][Generates
        => LET u == call'.user_id
               use == ~ call'.is_authorized /\ ~ C14_Trigger(u, call')
           IN /\ call'.outcome.path = "cached" => use
              /\ (~ use /\ call'.outcome.path # "raised")
                    => /\ call'.outcome.path = "composed"
                       /\ call'.outcome.text =
                            Compose(call'.mode, call'.emotion,
                                    call'.violation_type, call'.is_authorized,
                                    call'.ltm, call'.budget).text]_vars

(* C14 witness: an injection was composed for an authorized user while a cached
   entry existed for the key of the call *)
C14_Witness ==
    /\ call.fn = BuildFn
    /\ call.is_authorized
    /\ call.outcome.path = "composed"
    /\ _generate_cache_key(call.user_id, call.mode, call.emotion,
                           call.violation_type) \in DOMAIN cache

(* C15 as stated: with a non-null violation_type generate_injection never reads
   the cache. *)
C15_NeverReadsCache ==
    (call.fn = BuildFn /\ call.violation_type # None)
    => ~ call.outcome.cache_read

(* C15, amended: with a non-null violation_type generate_injection never
   returns the cached text, even if an entry exists for the key: it issues the
   cache read and discards what it read. *)
C15_NeverReturnsCached ==
    (call.fn = BuildFn /\ call.violation_type # None)
    => /\ call.outcome.path \in {"composed", "raised"}
       /\ call.outcome.path = "composed" => call.outcome.cache_read

(* C15 witness: an injection was composed for a format violation of an
   unauthorized user while the cache held an entry *)
C15_Witness ==
    /\ call.fn = BuildFn
    /\ call.violation_type # None
    /\ ~ call.is_authorized
    /\ call.outcome.path = "composed"
    /\ call.outcome.cache_read
    /\ DOMAIN cache # {}

(* C16: for every combination of mode, emotion, violation type, authorization
   and memories, and every max-token budget, the fixed costs of the components
   of a composed injection sum to at most the budget. *)
C16_WithinBudget ==
    call.fn = "Compose" => call.outcome.tokens <= call.budget

(* A step that sets a cache entry or the last-emotion marker *)
C17_Writes ==
    \/ \E k \in DOMAIN cache' : k \notin DOMAIN cache \/ cache'[k] # cache[k]
    \/ \E u \in Users : marker'[u] # marker[u] /\ marker'[u] # None

(* C17: a call of generate_injection for an authorized user writes neither a
   cache entry nor the last-emotion marker; both are written only when an
   injection is composed for an unauthorized user. *)
C17_CachingOnlyUnauthorized ==
    [][/\ (Generates /\ call'.is_authorized)
            => cache' = cache /\ marker' = marker
       /\ C17_Writes
            => /\ Generates
               /\ ~ call'.is_authorized
               /\ call'.outcome.path \in {"composed", "raised"}
               /\ call'.outcome.text =
                    Compose(call'.mode, call'.emotion, call'.violation_type,
                            FALSE, call'.ltm, call'.budget).text]_vars

(* C17 witness: an injection was composed for an authorized user and Redis holds
   no cache entry and no marker *)
C17_Witness ==
    /\ call.fn = BuildFn
    /\ call.is_authorized
    /\ call.outcome.path = "composed"
    /\ cache = <<>>
    /\ marker[call.user_id] = None

(* C18: a failure of a Redis command inside should_inject or generate_injection
   is treated as a cache miss: the call returns an injection and does not
   raise. *)
C18_NeverRaises ==
    call.outcome.path # "raised"

---------------------------------------------------------------------------
(* Properties of the scheduling sweep *)

(* A step of the sweep's loop that handles the user kusers[kpos] *)
SchedStep == kpc = "loop" /\ <<kpc, kpos>>' # <<kpc, kpos>>

(* The loop goes on with the next user of the list, or ends after the last *)
Proceeds ==
    IF kpos < Len(kusers)
    THEN kpc' = "loop" /\ kpos' = kpos + 1 /\ kusers' = kusers
    ELSE kpc' = "done"

NoHistory(user_id) ==
    \A i \in DOMAIN history : history[i].user_id # user_id

(* C19: in a scheduling sweep a user for whom the mining yields no candidates
   gets no schedule row, no error is raised and the sweep proceeds to the next
   user; a user without history (and so without memories) gets no schedule
   row. *)
C19_NoCandidatesNoRow ==
    [][SchedStep
        => /\ (ret'.fn = "_analyze_initiation_opportunities" /\ ~ ret'.value)
                => schedule' = schedule /\ ~ ret'.raised /\ Proceeds
           /\ NoHistory(kusers[kpos])
                => /\ schedule' = schedule
                   /\ Proceeds
                   /\ storeUp => ~ ret'.raised]_vars

(* C19 witness: the mining found nothing for the first user, nothing was
   scheduled, and the sweep is at the second user *)
C19_Witness ==
    /\ kpc = "loop" /\ kpos = 2
    /\ ret = Handled("_analyze_initiation_opportunities", kusers[1], FALSE, FALSE)
    /\ schedule = <<>>

(* C20: in a scheduling sweep an exception raised while handling one user is
   caught, nothing is scheduled for that user, and every later user of the
   sweep's list is still handled: the loop is left only after the last user. *)
C20_ExceptionSkipsOneUser ==
    [][/\ (SchedStep /\ ret'.raised) => schedule' = schedule /\ Proceeds
       /\ (kpc = "loop" /\ kpc' # "loop") => kpos = Len(kusers)]_vars

(* C20 witness: the time calculation raised for the first user, the store
   being reachable, and the sweep is at the second user *)
C20_Witness ==
    /\ kpc = "loop" /\ kpos = 2
    /\ ret = Handled("_calculate_optimal_time", kusers[1], TRUE, TRUE)
    /\ storeUp
    /\ schedule = <<>>
---------------------------------------------------------------------------
(* Properties of the silence mode *)

(* The newest five user messages of a user, whatever their age *)
C24_LastFive(user_id) ==
    LET S == {i \in Indices(history) :
                /\ history[i].user_id = user_id
                /\ history[i].role = "user"}
    IN {i \in S : Cardinality({j \in S : j > i}) < 5}

C24_Stressed(S) ==
    Cardinality({i \in S : history[i].emotion_primary \in stress_emotions}) >= 3

(* C24 as stated: _is_in_silence_mode returns true whenever at least 3 of the
   user's last 5 user-message emotions are stress-type. *)
C24_StressSilences ==
    (ret.fn = "_is_in_silence_mode" /\ C24_Stressed(C24_LastFive(ret.user_id)))
    => ret.value

(* C24, amended: _is_in_silence_mode returns true whenever at least 3 of the
   user's up to 5 newest user messages of the last 24 hours have a stress-type
   emotion, whatever the other two silence conditions say; with neither of the
   other two conditions it returns true only then. *)
C24_RecentStressSilences ==
    ret.fn = "_is_in_silence_mode"
    => LET u == ret.user_id
           recent == {i \in C24_LastFive(u) :
                        history[i].created_at > now - 24 * Hour}
       IN /\ C24_Stressed(recent) => ret.value
          /\ (~ IgnoredCondition(u) /\ ~ ShortAnswersCondition(u) /\ ret.value)
                => C24_Stressed(recent)

(* C24 witness: silence mode found for three stress emotions among the five
   messages of the last hours, with neither of the other two conditions *)
C24_Witness ==
    /\ ret.fn = "_is_in_silence_mode" /\ ret.value
    /\ ~ IgnoredCondition(ret.user_id)
    /\ ~ ShortAnswersCondition(ret.user_id)
    /\ Cardinality(C24_LastFive(ret.user_id)) = 5
    /\ Cardinality({i \in C24_LastFive(ret.user_id) :
            history[i].emotion_primary \in stress_emotions}) = 3

---------------------------------------------------------------------------
(* Properties of the style volatility *)

(* C29: for every history with fewer than 5 records calculate_style_volatility
   returns exactly 0.5. *)
C29_ShortHistoryVolatility ==
    (ret.fn = "calculate_style_volatility" /\ call.history.len < 5)
    => ret.value = 50

(* C29 witness: 0.5 returned for a history of four records whose style vectors
   would give another value *)
C29_Witness ==
    /\ ret.fn = "calculate_style_volatility"
    /\ call.history.len = 4
    /\ call.history.volatility = 100
    /\ ret.value = 50

---------------------------------------------------------------------------
(* Properties of the opportunity mining *)

(* The quality the claim gives a memory, in thousandths; the age counts in whole
   days, as the code takes it *)
C28_Quality(memory) ==
    LET whole_days == (now - memory.created_at) \div Day
        importance == memory.importance_score
    IN CASE whole_days > 3 /\ memory.memory_type = "auto_saved" ->
                Min(1000, importance * 84)
         [] whole_days > 3 /\ memory.memory_type # "auto_saved" ->
                Min(1000, importance * 70)
         [] whole_days <= 3 /\ memory.memory_type = "auto_saved" ->
                Min(1000, importance * 120)
         [] OTHER -> Min(1000, importance * 100)

(* C28: a continuation candidate's quality is min(1, importance/10, times 0.7
   if the memory's age exceeds 3 whole days, times 1.2 if it is auto-saved), and
   an open-ended memory yields a candidate exactly when that quality is at least
   the minimum quality score. *)
C28_ContinuationQuality ==
    ret.fn = "_find_continuation_opportunities"
    => /\ \A i \in DOMAIN ret.value : ret.value[i] = C28_Quality(ret.memory)
       /\ ret.value # <<>>
            <=> /\ ret.memory.is_open_ended
                /\ C28_Quality(ret.memory) >= INITIATION_MIN_QUALITY_SCORE

(* C28 witness: the 5-day-old user-saved open-ended memory of importance 8 has
   quality 0.56 and yields no candidate *)
C28_Witness ==
    /\ ret.fn = "_find_continuation_opportunities"
    /\ ret.memory = [importance_score |-> 8, memory_type |-> "user_saved",
                     created_at |-> now - 5 * Day, is_open_ended |-> TRUE]
    /\ ContinuationQuality(ret.memory) = 560
    /\ ret.value = <<>>

---------------------------------------------------------------------------
(* Properties of the opt-in, opt-out and pause mutators *)

Statuses(rows) == [i \in DOMAIN rows |-> rows[i].status]

(* C26: applying enable_proactivity, disable_proactivity or
   set_proactivity_pause (same pause-until) a second time in a row leaves the
   user's enabled flag, the pause state and the statuses of the schedule rows as
   the first application left them. *)
C26_MutatorsIdempotent ==
    [][(ret.fn \in Mutators /\ ret.times = 1 /\ ret'.times = 2)
        => /\ settings' = settings
           /\ Statuses(schedule') = Statuses(schedule)]_vars

(* C26 witness: a pause applied twice; it cancelled the pending row scheduled
   before its end and left the later pending row alone *)
C26_Witness ==
    /\ ret.fn = "set_proactivity_pause" /\ ret.times = 2
    /\ settings[ret.user_id].paused_until = ret.value
    /\ \E i, j \in Indices(schedule) :
          /\ schedule[i].status = "cancelled"
          /\ schedule[i].scheduled_at > now
          /\ schedule[i].scheduled_at <= ret.value
          /\ schedule[j].status = "pending"
          /\ schedule[j].scheduled_at > ret.value

---------------------------------------------------------------------------
(* Properties of the cache recalibration *)

(* C25 as stated: background_cache_recalibration is idempotent: a second run in
   a row leaves the set of cached keys as the first run left it. *)
C25_Idempotent ==
    [][(ret.fn = "background_cache_recalibration" /\ ret.times = 1
            /\ ret'.times = 2)
        => DOMAIN cache' = DOMAIN cache]_vars

(* C25, amended: every run of background_cache_recalibration only removes keys,
   and a run in which Redis does not fail removes exactly
   max(1, int(n * percentage)) of the n keys of a non-empty cache, so a second
   run in a row removes further keys; only the empty cache is left as it is. *)
C25_EveryRunEvicts ==
    [][ret'.times = ret.times + 1
        => LET n == Cardinality(DOMAIN cache) IN
           /\ DOMAIN cache' \subseteq DOMAIN cache
           /\ \A k \in DOMAIN cache' : cache'[k] = cache[k]
           /\ ~ ret'.raised
                => Cardinality(DOMAIN cache')
                     = IF n = 0 THEN 0
                       ELSE n - Max(1, (n * ret.percentage) \div 100)]_vars

(* C25 witness: two runs at 5 percent, the second of which removed the one key
   the first had left *)
C25_Witness ==
    /\ ret.fn = "background_cache_recalibration"
    /\ ret.times = 2 /\ ret.percentage = 5
    /\ ~ ret.raised /\ ret.value = 1
    /\ DOMAIN cache = {}

---------------------------------------------------------------------------
(* Properties of the correlator hook *)

(* C27: handle_message calls process_user_response for every inbound user text
   message: whenever the handling of a message ends, the hook has been called
   for it. *)
C27_HookOnEveryMessage ==
    [][(inflight # NoUpdate /\ inflight' = NoUpdate)
        => /\ ret'.fn = "process_user_response"
           /\ ret'.user_id = inflight.user_id]_vars


(* C30: at-most-once delivery: over all dispatch sweeps no schedule row has its
   message delivered to the user a second time, also when recording the outcome
   of a successful send fails and is rolled back *)
C30_AtMostOnce == delivered.twice = {}

(* C21: every loop's task stays alive whatever happens in an iteration of any
   loop, and the sender and scheduler loops are back at their sleep, from which
   the next iteration starts, again and again *)
C21_LoopsContinue ==
    [](/\ \A loop \in Loops : Running(loop)
       /\ <>(spc = "idle")
       /\ <>(kpc = "idle"))

(* an exception left a dispatch sweep part-way, another one the scheduling, and
   the loops are at their sleep *)
C21_Witness ==
    /\ spc = "idle" /\ batch # <<>>
    /\ kpc = "idle"
    /\ ~ storeUp
    /\ \A loop \in Loops : Running(loop)

(* the rows of the batch that the dispatch sweep has not finished handling *)
C22_Unhandled ==
    IF spc = "idle" THEN {} ELSE {batch[i] : i \in pos .. Len(batch)}

(* C22: stop_proactive_cron cancels the three loops and writes no row: the rows
   the dispatch sweep had handled keep their committed status, the rows it had
   not handled are pending, and while the loops are cancelled no sweep writes *)
C22_Step ==
    /\ (~ Stopped /\ Stopped')
          => /\ \A loop \in Loops : tasks'[loop] = "cancelled"
             /\ schedule' = schedule /\ logs' = logs /\ history' = history
             /\ \A id \in C22_Unhandled : schedule'[id].status = "pending"
    /\ (Stopped /\ Stopped')
          => UNCHANGED <<schedule, logs, history, spc, batch, pos, kpc>>

C22_StopLeavesPending == [][C22_Step]_vars

(* a dispatch sweep cancelled between its rows: the first row is sent, the
   second one was in hand and is pending *)
C22_Witness ==
    /\ Stopped
    /\ spc = "send" /\ pos = 2
    /\ schedule[batch[1]].status = "sent"
    /\ schedule[batch[2]].status = "pending"

(* the rows of the first n that count for the limits: pending or sent *)
C23_Live(n) ==
    {i \in 1 .. n : schedule[i].status \in {"pending", "sent"}}

C23_Today(n) ==
    {i \in C23_Live(n) : today_start(schedule[i].scheduled_at) = today_start(now)}

(* the rows inserted although an earlier row of the table was less than the
   minimum interval old (or still to come) *)
C23_InsideCooldown ==
    {i \in (racers.base + 1) .. Len(schedule) :
        \E j \in C23_Live(i - 1) :
            schedule[j].scheduled_at
                > now - MIN_INITIATION_INTERVAL_HOURS * Hour}

(* C23: two scheduling sweeps racing on one user insert at most one row more
   than one after the other would: at most two rows, the day's count is at most
   the daily maximum plus one, at most one row is inserted inside the cool-down,
   and nothing is inserted when the limit or the cool-down applied before *)
C23_AtMostOneExtra ==
    /\ Len(schedule) - racers.base <= 2
    /\ Cardinality(C23_Today(Len(schedule))) <= MAX_INITIATIONS_PER_DAY + 1
    /\ Cardinality(C23_InsideCooldown) <= 1
    /\ \A i \in (racers.base + 1) .. Len(schedule) : schedule[i].status = "pending"
    /\ (\/ Cardinality(C23_Today(racers.base)) >= MAX_INITIATIONS_PER_DAY
        \/ \E j \in C23_Live(racers.base) :
              schedule[j].scheduled_at > now - MIN_INITIATION_INTERVAL_HOURS * Hour)
          => Len(schedule) = racers.base

(* both sweeps passed the checks before either inserted: the day has one row
   more than the daily maximum *)
C23_Witness ==
    /\ \A p \in Racers : racers.sweep[p] = "done"
    /\ Len(schedule) = racers.base + 2
    /\ Cardinality(C23_Today(Len(schedule))) = MAX_INITIATIONS_PER_DAY + 1
    /\ Cardinality(C23_InsideCooldown) = 1

(* C31: a dispatch sweep starts the sending of a row's message only while the
   proactivity of the row's user is enabled and not paused, whatever commands
   arrived since the sweep fetched its batch *)
C31_SendOnlyWhileEnabled ==
    [][(spc = "gen" /\ spc' = "send")
          => is_proactivity_enabled(schedule[batch[pos]].user_id)]_vars

(* the rows of a user that count for a UTC day: pending or sent, scheduled on
   the day that starts at day *)
C32_Counted(u, day) ==
    {i \in 1 .. Len(schedule) :
        /\ schedule[i].user_id = u
        /\ schedule[i].status \in {"pending", "sent"}
        /\ today_start(schedule[i].scheduled_at) = day}

(* C32: for every user and every UTC calendar day, at most
   MAX_INITIATIONS_PER_DAY rows scheduled on that day are pending or sent *)
C32_DailyMaximum ==
    \A u \in Users :
        \A i \in 1 .. Len(schedule) :
            Cardinality(C32_Counted(u, today_start(schedule[i].scheduled_at)))
                <= MAX_INITIATIONS_PER_DAY

C33_Pending(i) == i <= Len(schedule) /\ schedule[i].status = "pending"

(* C33: every pending schedule row eventually leaves the pending state *)
C33_PendingLeaves ==
    \A i \in 1 .. MaxRows : [](C33_Pending(i) => <>(~ C33_Pending(i)))

(* one row was picked up by a dispatch sweep and another one, more than 48
   hours overdue, was cancelled by the cleanup sweep *)
C33_Witness ==
    /\ Len(schedule) >= 2
    /\ schedule[1].status \in {"sent", "failed"}
    /\ schedule[2].status = "cancelled"

(* C34: the hook of a user message marks as answered only an initiation that was
   sent (logged) no later than the message was received *)
C34_CorrelatesEarlierOnly ==
    [][(inflight # NoUpdate /\ inflight' = NoUpdate)
          => \A i \in 1 .. Len(logs) :
                (~ logs[i].user_responded /\ logs'[i].user_responded)
                    => logs[i].created_at <= inflight.received_at]_vars

(* C35: a row is inserted with a scheduled_at later than the moment of the
   insertion, a dispatch sweep starts sending a row only when its scheduled_at
   has passed, and a sent row was sent at or after its scheduled_at *)
C35_Step ==
    /\ Len(schedule') > Len(schedule)
          => \A i \in (Len(schedule) + 1) .. Len(schedule') :
                schedule'[i].scheduled_at > now
    /\ (spc = "gen" /\ spc' = "send")
          => schedule[batch[pos]].scheduled_at <= now
    /\ \A i \in 1 .. Len(schedule') :
          schedule'[i].status = "sent"
              => schedule'[i].scheduled_at <= schedule'[i].sent_at

C35_ScheduledBetween == [][C35_Step]_vars

(* a row was sent, and another one has just been rolled to the next day *)
C35_Witness ==
    /\ \E i \in 1 .. Len(schedule) :
          schedule[i].status = "sent" /\ schedule[i].scheduled_at <= schedule[i].sent_at
    /\ \E j \in 1 .. Len(schedule) :
          schedule[j].status = "pending" /\ schedule[j].scheduled_at > now + 23 * Hour

C36_LocalHour(i) ==
    (LocalTime(schedule[i].user_id, schedule[i].scheduled_at) % Day) \div Hour

(* C36: the local time of day of every stored scheduled_at lies in the active
   hours [INITIATION_ACTIVE_HOURS_START, INITIATION_ACTIVE_HOURS_END) *)
C36_InsideActiveHours ==
    \A i \in 1 .. Len(schedule) :
        /\ C36_LocalHour(i) >= INITIATION_ACTIVE_HOURS_START
        /\ C36_LocalHour(i) < INITIATION_ACTIVE_HOURS_END

(* C37: for a user with activity history the choice of the time does not fail:
   once an opportunity was found for the user, handling the user raises only
   when the store fails *)
C37_TimeForEveryHistory ==
    [][(/\ kpc = "loop"
        /\ _get_user_activity_hours(kusers[kpos]) # {}
        /\ ret'.user_id = kusers[kpos]
        /\ ret'.value
        /\ ret'.raised)
          => ~ storeUp']_vars


---------------------------------------------------------------------------
(* The user's emotion-tagged turns in the history the analysis fetches, oldest
   first *)
C38_Tagged(u) ==
    SelectSeq(get_recent_history(u, OpportunityHistoryLimit),
              LAMBDA m : m.role = "user" /\ m.emotion_primary # "")

(* The last TrendWindow of them *)
C38_Last(u) ==
    IF Len(C38_Tagged(u)) <= TrendWindow THEN C38_Tagged(u)
    ELSE SubSeq(C38_Tagged(u), Len(C38_Tagged(u)) - TrendWindow + 1,
                Len(C38_Tagged(u)))

C38_Negative(u) ==
    Cardinality({i \in DOMAIN C38_Last(u) :
                    C38_Last(u)[i].emotion_primary \in negative_emotions})

C38_Positive(u) ==
    Cardinality({i \in DOMAIN C38_Last(u) :
                    C38_Last(u)[i].emotion_primary \in positive_emotions})

(* C38: the trajectory the sweep computes for the user it analyses has the
   emotion of the user's latest tagged turn as its current emotion, is declining exactly when
   the negative turns among the last 10 tagged turns are more than twice the
   positive ones, and improving exactly when the positive ones are more than
   twice the negative ones. *)
C38_LatestTaggedTurns ==
    \A u \in {v \in DOMAIN settings : kpc = "loop" /\ kusers[kpos] = v} :
        LET emotion_trajectory == _analyze_emotion_trajectory(
                get_recent_history(u, OpportunityHistoryLimit))
        IN /\ C38_Tagged(u) # <<>> =>
                emotion_trajectory.current_emotion =
                    C38_Tagged(u)[Len(C38_Tagged(u))].emotion_primary
           /\ emotion_trajectory.trend = "declining" <=>
                C38_Negative(u) > C38_Positive(u) * 2
           /\ emotion_trajectory.trend = "improving" <=>
                ~ (C38_Negative(u) > C38_Positive(u) * 2)
                /\ C38_Positive(u) > C38_Negative(u) * 2

---------------------------------------------------------------------------
(* The text a fresh composition gives an unauthorized user for the mode, the
   emotion and the violation type a cache key is made of *)
C39_Fresh(cache_key) ==
    Compose(cache_key[2], cache_key[3],
            IF Len(cache_key) = 4 THEN cache_key[4] ELSE None,
            FALSE, FALSE, INJECTION_MAX_TOKENS).text

(* C39: whatever calls the users of a cache bucket made before, every entry of
   the cache holds the text a fresh composition produces for an unauthorized
   user with the mode and emotion of the entry's key, and a call that returns
   from the cache returns the entry of its own key: a cache hit returns what a
   fresh composition would. *)
C39_CacheTransparent ==
    /\ \A cache_key \in DOMAIN cache : cache[cache_key] = C39_Fresh(cache_key)
    /\ call.outcome.path = "cached" =>
          call.outcome.text =
              C39_Fresh(_generate_cache_key(call.user_id, call.mode,
                                            call.emotion, call.violation_type))

(* An unauthorized user's first call, with no invalidation trigger, reads the
   cache while it holds the entry that the other user of the bucket stored for
   the same mode and emotion (the call's own write did not reach Redis) *)
C39_Witness ==
    /\ call.fn = "build_enhanced_context_with_ltm_smart"
    /\ ~ call.is_authorized
    /\ call.outcome.cache_read /\ ~ call.outcome.ignore
    /\ call.failed = {"cache_setex"}
    /\ counter[call.user_id] = 1
    /\ \E other \in DOMAIN marker \ {call.user_id} :
          marker[other] = call.emotion /\ fired[other] > 0
    /\ _generate_cache_key(call.user_id, call.mode, call.emotion,
                           call.violation_type) \in DOMAIN cache

---------------------------------------------------------------------------
PersonalAnchors == {"ltm_anchor", "vector_anchor"}

(* What a context build of an authorized user may change: nothing an
   unauthorized user's build reads (the cache, the other users' markers and
   counters) *)
C40_AuthorizedLeavesNoTrace ==
    /\ cache' = cache
    /\ \A v \in DOMAIN marker \ {call'.user_id} :
          marker'[v] = marker[v] /\ counter'[v] = counter[v]

(* What a context build returns to an unauthorized user: a text without a
   personal anchor, fixed by the mode, the emotion and the violation type of
   the call alone *)
C40_TextFromOwnArguments ==
    call'.outcome.path \in {"cached", "composed"} =>
        /\ \A i \in DOMAIN call'.outcome.text :
              call'.outcome.text[i] \notin PersonalAnchors
        /\ call'.outcome.text =
              Compose(call'.mode, call'.emotion, call'.violation_type,
                      FALSE, FALSE, INJECTION_MAX_TOKENS).text

(* C40: the injection text a context build returns to an unauthorized user has
   no personal anchor and is fixed by the call's own mode, emotion and
   violation type, and a build for an authorized user (whatever its history
   and long-term memories) changes nothing that an unauthorized user's build
   reads: runs that differ only in the histories and memories of authorized
   users return the same texts to every unauthorized user. *)
C40_NoPersonalData ==
    [][(call = NoFrame /\ call'.fn = "build_enhanced_context_with_ltm_smart")
          => IF call'.is_authorized THEN C40_AuthorizedLeavesNoTrace
             ELSE C40_TextFromOwnArguments]_vars

(* An unauthorized user is given an injection after the other user of the
   bucket, authorized, was given one *)
C40_Witness ==
    /\ call.fn = "build_enhanced_context_with_ltm_smart"
    /\ ~ call.is_authorized
    /\ call.outcome.path = "composed"
    /\ \E other \in DOMAIN marker \ {call.user_id} :
          counter[other] > 0 /\ marker[other] = None
===========================================================================
